---- MODULE Spec2Model ----
(***************************************************************************)
(* A model of the KCP control block of src/src/kcp.rs (struct Kcp and its  *)
(* operations), of the datagrams it writes to its output sink, and of two  *)
(* drivers: a pair of endpoints joined by an unreliable network, and one   *)
(* endpoint fed arbitrary segments.                                        *)
(*                                                                         *)
(* Numbers: a u32 value is written as the integer congruent to it modulo   *)
(* 2^32 that lies in -2^31 .. 2^31 - 1: a value below 2^31 as itself,      *)
(* 0xFFFFFFFF as -1.  That integer is `x as i32`, and within the bounds of *)
(* this model sums and differences stay in that range, so that a wrapping  *)
(* u32 sum is the plain sum.  All fields but the sequence numbers of the   *)
(* driver that starts just below 2^32 stay non-negative.  The unsigned     *)
(* order of the u32 values is cmp.  `as u16` casts are written % 65536.    *)
(*                                                                         *)
(* Payload bytes are symbolic: the i-th byte of the buffer given to the    *)
(* m-th send call is the pair (m, i), and a run of them is kept as a chunk *)
(* <<m, lo, hi>> (bytes lo .. hi-1 of buffer m).  A payload is a sequence  *)
(* of chunks in which adjacent chunks are never contiguous, so that two    *)
(* payloads are equal exactly when they hold the same bytes.               *)
(***************************************************************************)
EXTENDS Integers, Sequences, FiniteSets, TLC

\* ------------------------------------------------------------ constants

KCP_RTO_NDL == 30
KCP_RTO_MIN == 100
KCP_RTO_DEF == 200
KCP_RTO_MAX == 60000

KCP_CMD_PUSH == 81
KCP_CMD_ACK == 82
KCP_CMD_WASK == 83
KCP_CMD_WINS == 84

KCP_ASK_SEND == 1
KCP_ASK_TELL == 2

KCP_WND_SND == 32
KCP_WND_RCV == 128

KCP_MTU_DEF == 1400

KCP_INTERVAL == 100
KCP_OVERHEAD == 24
KCP_DEADLINK == 20

KCP_THRESH_INIT == 2
KCP_THRESH_MIN == 2

KCP_PROBE_INIT == 7000
KCP_PROBE_LIMIT == 120000
KCP_FASTACK_LIMIT == 5

U16 == 65536

\* ------------------------------------------------------------ helpers

Min(a, b) == IF a < b THEN a ELSE b

Max(a, b) == IF a > b THEN a ELSE b

bound(lower, v, upper) == Min(Max(lower, v), upper)

\* (later as i32) - (earlier as i32)
timediff(later, earlier) == later - earlier

\* u32::cmp(&a, &b): negative integers stand for the values from 2^31 on
cmp(a, b) ==
    IF a = b THEN "Equal"
    ELSE IF (a < 0) = (b < 0) THEN (IF a < b THEN "Less" ELSE "Greater")
    ELSE IF b < 0 THEN "Less" ELSE "Greater"

\* bit b (a power of two) of the flag word p
HasBit(p, b) == (p \div b) % 2 = 1

\* p | b
SetBit(p, b) == IF HasBit(p, b) THEN p ELSE p + b

\* F(v), with v computed once however often F refers to it: a local of the
\* code, assigned once and read many times
With(F(_), v) == CHOOSE r \in {F(x) : x \in {v}} : TRUE

\* ------------------------------------------------------------ payload bytes

RECURSIVE DataLen(_)
DataLen(d) == IF d = <<>> THEN 0 ELSE (Head(d)[3] - Head(d)[2]) + DataLen(Tail(d))

\* extend_from_slice / write_all: d1 followed by d2
Concat(d1, d2) ==
    IF d1 = <<>> THEN d2
    ELSE IF d2 = <<>> THEN d1
    ELSE LET a == d1[Len(d1)]
             b == d2[1]
         IN IF a[1] = b[1] /\ a[3] = b[2]
            THEN SubSeq(d1, 1, Len(d1) - 1) \o << <<a[1], a[2], b[3]>> >> \o Tail(d2)
            ELSE d1 \o d2

\* the first n bytes of d (n <= DataLen(d))
RECURSIVE TakeBytes(_, _)
TakeBytes(d, n) ==
    IF n = 0 \/ d = <<>> THEN <<>>
    ELSE LET c == Head(d)
             l == c[3] - c[2]
         IN IF l <= n THEN <<c>> \o TakeBytes(Tail(d), n - l)
            ELSE << <<c[1], c[2], c[2] + n>> >>

\* d without its first n bytes
RECURSIVE DropBytes(_, _)
DropBytes(d, n) ==
    IF n = 0 \/ d = <<>> THEN d
    ELSE LET c == Head(d)
             l == c[3] - c[2]
         IN IF l <= n THEN DropBytes(Tail(d), n - l)
            ELSE << <<c[1], c[2] + n, c[3]>> >> \o Tail(d)

\* the buffer of len bytes given to the m-th send call
Buffer(m, len) == IF len = 0 THEN <<>> ELSE << <<m, 0, len>> >>

\* ------------------------------------------------------------ segments

new_with_data(data) ==
    [conv |-> 0, cmd |-> 0, frg |-> 0, wnd |-> 0, ts |-> 0, sn |-> 0, una |-> 0,
     resendts |-> 0, rto |-> 0, fastack |-> 0, xmit |-> 0, data |-> data]

encoded_len(seg) == KCP_OVERHEAD + DataLen(seg.data)

\* the bytes encode appends to a buffer: the eight header fields, then the payload
encode(seg) ==
    [conv |-> seg.conv, cmd |-> seg.cmd, frg |-> seg.frg, wnd |-> seg.wnd, ts |-> seg.ts,
     sn |-> seg.sn, una |-> seg.una, len |-> DataLen(seg.data), data |-> seg.data]

\* the length in bytes of the encoded segments buf[lo..hi] (halved, to keep
\* the evaluation shallow on long buffers)
RECURSIVE BufLenRange(_, _, _)
BufLenRange(buf, lo, hi) ==
    IF lo > hi THEN 0
    ELSE IF lo = hi THEN KCP_OVERHEAD + DataLen(buf[lo].data)
    ELSE LET mid == (lo + hi) \div 2
         IN BufLenRange(buf, lo, mid) + BufLenRange(buf, mid + 1, hi)

\* the length in bytes of a buffer of encoded segments
BufLen(buf) == BufLenRange(buf, 1, Len(buf))

\* ------------------------------------------------------------ the control block

construct(conv, stream) ==
    [conv |-> conv, snd_una |-> 0, snd_nxt |-> 0, rcv_nxt |-> 0, ts_probe |-> 0,
     probe_wait |-> 0, snd_wnd |-> KCP_WND_SND, rcv_wnd |-> KCP_WND_RCV,
     rmt_wnd |-> KCP_WND_RCV, cwnd |-> 0, incr |-> 0, probe |-> 0,
     mtu |-> KCP_MTU_DEF, mss |-> KCP_MTU_DEF - KCP_OVERHEAD, stream |-> stream,
     buf |-> <<>>, snd_queue |-> <<>>, rcv_queue |-> <<>>, snd_buf |-> <<>>,
     rcv_buf |-> <<>>, state |-> 0, acklist |-> <<>>, rx_srtt |-> 0, rx_rttval |-> 0,
     rx_rto |-> KCP_RTO_DEF, rx_minrto |-> KCP_RTO_MIN, current |-> 0,
     interval |-> KCP_INTERVAL, ts_flush |-> KCP_INTERVAL, nodelay |-> FALSE,
     updated |-> FALSE, ssthresh |-> KCP_THRESH_INIT, fastresend |-> 0,
     fastlimit |-> KCP_FASTACK_LIMIT, nocwnd |-> FALSE, xmit |-> 0,
     dead_link |-> KCP_DEADLINK, input_conv |-> FALSE]

\* move_buf counting no promotion: rcv_nxt is left as it was
RECURSIVE move_buf_NoCount(_)
move_buf_NoCount(k) ==
    IF k.rcv_buf = <<>> THEN k
    ELSE LET seg == Head(k.rcv_buf)
         IN IF seg.sn = k.rcv_nxt /\ Len(k.rcv_queue) < k.rcv_wnd
            THEN [k EXCEPT !.rcv_buf = Tail(@), !.rcv_queue = Append(@, seg)]
            ELSE k

\* move_buf promoting one segment at most
move_buf_Once(k) ==
    IF k.rcv_buf = <<>> THEN k
    ELSE LET seg == Head(k.rcv_buf)
         IN IF seg.sn = k.rcv_nxt /\ Len(k.rcv_queue) < k.rcv_wnd
            THEN [k EXCEPT !.rcv_nxt = @ + 1, !.rcv_buf = Tail(@),
                           !.rcv_queue = Append(@, seg)]
            ELSE k

\* move_buf promoting the head of rcv_buf whatever its sn
RECURSIVE move_buf_AnyOrder(_)
move_buf_AnyOrder(k) ==
    IF k.rcv_buf = <<>> THEN k
    ELSE LET seg == Head(k.rcv_buf)
         IN IF Len(k.rcv_queue) < k.rcv_wnd
            THEN move_buf_AnyOrder([k EXCEPT !.rcv_nxt = @ + 1,
                                             !.rcv_buf = Tail(@),
                                             !.rcv_queue = Append(@, seg)])
            ELSE k

\* move available data from rcv_buf -> rcv_queue
RECURSIVE move_buf(_)
move_buf(k) ==
    IF k.rcv_buf = <<>> THEN k
    ELSE LET seg == Head(k.rcv_buf)
         IN IF seg.sn = k.rcv_nxt /\ Len(k.rcv_queue) < k.rcv_wnd
            THEN With(move_buf, [k EXCEPT !.rcv_nxt = @ + 1,
                                          !.rcv_buf = Tail(@),
                                          !.rcv_queue = Append(@, seg)])
            ELSE k

\* the number of segments recv pops: up to and including the first with frg = 0
RECURSIVE MsgEnd(_)
MsgEnd(q) ==
    IF q = <<>> THEN 0
    ELSE IF Head(q).frg = 0 THEN 1
    ELSE 1 + MsgEnd(Tail(q))

\* the payloads of the segments of q, one after the other (halved, to keep
\* the evaluation shallow on long queues)
RECURSIVE Payloads(_)
Payloads(q) ==
    IF q = <<>> THEN <<>>
    ELSE IF Len(q) = 1 THEN q[1].data
    ELSE LET mid == Len(q) \div 2
         IN Concat(Payloads(SubSeq(q, 1, mid)), Payloads(SubSeq(q, mid + 1, Len(q))))

\* peeksize without the check for missing fragments
peeksize_NoExpect(k) ==
    IF k.rcv_queue = <<>> THEN [err |-> "RecvQueueEmpty", size |-> 0]
    ELSE [err |-> "Ok",
          size |-> DataLen(Payloads(SubSeq(k.rcv_queue, 1, MsgEnd(k.rcv_queue))))]

peeksize(k) ==
    IF k.rcv_queue = <<>> THEN [err |-> "RecvQueueEmpty", size |-> 0]
    ELSE LET segment == Head(k.rcv_queue)
         IN IF segment.frg = 0 THEN [err |-> "Ok", size |-> DataLen(segment.data)]
            ELSE IF Len(k.rcv_queue) < segment.frg + 1
                 THEN [err |-> "ExpectingFragment", size |-> 0]
                 ELSE [err |-> "Ok",
                       size |-> DataLen(Payloads(SubSeq(k.rcv_queue, 1, MsgEnd(k.rcv_queue))))]

\* recv popping the head segment before it finds the buffer too small
recv_PopFirst(k, buflen) ==
    IF k.rcv_queue = <<>> THEN [k |-> k, err |-> "RecvQueueEmpty", data |-> <<>>]
    ELSE LET peek == peeksize(k)
         IN IF peek.err # "Ok" THEN [k |-> k, err |-> peek.err, data |-> <<>>]
            ELSE IF peek.size > buflen
                 THEN [k |-> [k EXCEPT !.rcv_queue = Tail(@)], err |-> "UserBufTooSmall",
                       data |-> <<>>]
            ELSE LET recover == Len(k.rcv_queue) >= k.rcv_wnd
                     n == MsgEnd(k.rcv_queue)
                     popped == SubSeq(k.rcv_queue, 1, n)
                     k1 == [k EXCEPT !.rcv_queue = SubSeq(@, n + 1, Len(@))]
                     k2 == move_buf(k1)
                     k3 == IF Len(k2.rcv_queue) < k2.rcv_wnd /\ recover
                           THEN [k2 EXCEPT !.probe = SetBit(@, KCP_ASK_TELL)]
                           ELSE k2
                 IN [k |-> k3, err |-> "Ok", data |-> Payloads(popped)]

\* recv into a buffer of buflen bytes: the control block after the call, the
\* result, and the bytes written to the buffer
recv(k, buflen) ==
    IF k.rcv_queue = <<>> THEN [k |-> k, err |-> "RecvQueueEmpty", data |-> <<>>]
    ELSE LET peek == peeksize(k)
         IN IF peek.err # "Ok" THEN [k |-> k, err |-> peek.err, data |-> <<>>]
            ELSE IF peek.size > buflen THEN [k |-> k, err |-> "UserBufTooSmall", data |-> <<>>]
            ELSE LET recover == Len(k.rcv_queue) >= k.rcv_wnd
                     n == MsgEnd(k.rcv_queue)
                     popped == SubSeq(k.rcv_queue, 1, n)
                     k1 == [k EXCEPT !.rcv_queue = SubSeq(@, n + 1, Len(@))]
                     k2 == move_buf(k1)
                     k3 == IF Len(k2.rcv_queue) < k2.rcv_wnd /\ recover
                           THEN [k2 EXCEPT !.probe = SetBit(@, KCP_ASK_TELL)]
                           ELSE k2
                 IN [k |-> k3, err |-> "Ok", data |-> Payloads(popped)]

\* the segments of send numbered from count down to 1
Fragments_FromCount(buf, mss, count, i, stream) ==
    [j \in 1..(count - i) |->
        LET rest == DropBytes(buf, (j - 1) * mss)
            size == Min(mss, DataLen(rest))
        IN [new_with_data(TakeBytes(rest, size))
              EXCEPT !.frg = IF stream THEN 0 ELSE (count - (i + j - 1)) % 256]]

\* the new segments that the passes i .. count-1 of the loop of send cut buf
\* into: each pass splits off min(mss, buf.len()) bytes, so that pass i + j - 1
\* finds buf without its first (j - 1) * mss bytes; its frg is count - i - 1
Fragments(buf, mss, count, i, stream) ==
    [j \in 1..(count - i) |->
        LET rest == DropBytes(buf, (j - 1) * mss)
            size == Min(mss, DataLen(rest))
        IN [new_with_data(TakeBytes(rest, size))
              EXCEPT !.frg = IF stream THEN 0 ELSE (count - (i + j - 1) - 1) % 256]]

\* send(buf): the control block after the call, the result and the byte count
send(k, buf) ==
    LET old == k.snd_queue[Len(k.snd_queue)]
        fill == k.stream /\ k.snd_queue # <<>> /\ DataLen(old.data) < k.mss
        extend == IF fill THEN Min(DataLen(buf), k.mss - DataLen(old.data)) ELSE 0
        k1 == IF fill
              THEN [k EXCEPT !.snd_queue[Len(k.snd_queue)] =
                        [old EXCEPT !.data = Concat(@, TakeBytes(buf, extend)), !.frg = 0]]
              ELSE k
        rest == DropBytes(buf, extend)
        count == IF DataLen(rest) <= k.mss THEN 1
                 ELSE (DataLen(rest) + k.mss - 1) \div k.mss
    IN IF k.stream /\ rest = <<>> THEN [k |-> k1, err |-> "Ok", n |-> extend]
       ELSE IF count >= KCP_WND_RCV THEN [k |-> k1, err |-> "UserBufTooBig", n |-> 0]
       ELSE [k |-> [k1 EXCEPT !.snd_queue =
                        @ \o Fragments(rest, k.mss, Max(1, count), 0, k.stream)],
             err |-> "Ok", n |-> DataLen(buf)]

\* ------------------------------------------------------------ input

\* update_ack without the clamp of rx_rto
update_ack_NoClamp(k, rtt) ==
    LET k1 == IF k.rx_srtt = 0
              THEN [k EXCEPT !.rx_srtt = rtt, !.rx_rttval = rtt \div 2]
              ELSE LET delta == IF rtt > k.rx_srtt THEN rtt - k.rx_srtt ELSE k.rx_srtt - rtt
                       srtt == (7 * k.rx_srtt + rtt) \div 8
                   IN [k EXCEPT !.rx_rttval = (3 * @ + delta) \div 4,
                                !.rx_srtt = IF srtt < 1 THEN 1 ELSE srtt]
    IN [k1 EXCEPT !.rx_rto = k1.rx_srtt + Max(k1.interval, 4 * k1.rx_rttval)]

update_ack(k, rtt) ==
    LET k1 == IF k.rx_srtt = 0
              THEN [k EXCEPT !.rx_srtt = rtt, !.rx_rttval = rtt \div 2]
              ELSE LET delta == IF rtt > k.rx_srtt THEN rtt - k.rx_srtt ELSE k.rx_srtt - rtt
                       srtt == (7 * k.rx_srtt + rtt) \div 8
                   IN [k EXCEPT !.rx_rttval = (3 * @ + delta) \div 4,
                                !.rx_srtt = IF srtt < 1 THEN 1 ELSE srtt]
        rto == k1.rx_srtt + Max(k1.interval, 4 * k1.rx_rttval)
    IN [k1 EXCEPT !.rx_rto = bound(k1.rx_minrto, rto, KCP_RTO_MAX)]

\* shrink_buf taking the sn of the last segment of snd_buf
shrink_buf_Last(k) ==
    [k EXCEPT !.snd_una = IF k.snd_buf # <<>> THEN k.snd_buf[Len(k.snd_buf)].sn ELSE k.snd_nxt]

\* shrink_buf taking the sn after snd_nxt when snd_buf is empty
shrink_buf_Beyond(k) ==
    [k EXCEPT !.snd_una = IF k.snd_buf # <<>> THEN Head(k.snd_buf).sn ELSE k.snd_nxt + 1]

shrink_buf(k) ==
    [k EXCEPT !.snd_una = IF k.snd_buf # <<>> THEN Head(k.snd_buf).sn ELSE k.snd_nxt]

\* the scan of parse_ack: sn.cmp(&seg.sn) on the u32 values
RECURSIVE AckScan(_, _)
AckScan(buf, sn) ==
    IF buf = <<>> THEN <<>>
    ELSE IF cmp(sn, Head(buf).sn) = "Equal" THEN Tail(buf)
    ELSE IF cmp(sn, Head(buf).sn) = "Less" THEN buf
    ELSE <<Head(buf)>> \o AckScan(Tail(buf), sn)

parse_ack(k, sn) ==
    IF timediff(sn, k.snd_una) < 0 \/ timediff(sn, k.snd_nxt) >= 0 THEN k
    ELSE [k EXCEPT !.snd_buf = AckScan(@, sn)]

RECURSIVE UnaScan(_, _)
UnaScan(buf, una) ==
    IF buf # <<>> /\ timediff(una, Head(buf).sn) > 0 THEN UnaScan(Tail(buf), una) ELSE buf

parse_una(k, una) == [k EXCEPT !.snd_buf = UnaScan(@, una)]

\* the loop of parse_fastack built with the fastack-conserve feature, which
\* leaves the ts test out
RECURSIVE FastackScan_Conserve(_, _, _)
FastackScan_Conserve(buf, sn, ts) ==
    IF buf = <<>> THEN <<>>
    ELSE LET seg == Head(buf)
         IN IF timediff(sn, seg.sn) < 0 THEN buf
            ELSE IF sn # seg.sn
                 THEN <<[seg EXCEPT !.fastack = @ + 1]>> \o FastackScan_Conserve(Tail(buf), sn, ts)
                 ELSE <<seg>> \o FastackScan_Conserve(Tail(buf), sn, ts)

\* the loop of parse_fastack (built without the fastack-conserve feature)
RECURSIVE FastackScan(_, _, _)
FastackScan(buf, sn, ts) ==
    IF buf = <<>> THEN <<>>
    ELSE LET seg == Head(buf)
         IN IF timediff(sn, seg.sn) < 0 THEN buf
            ELSE IF sn # seg.sn /\ timediff(ts, seg.ts) >= 0
                 THEN <<[seg EXCEPT !.fastack = @ + 1]>> \o FastackScan(Tail(buf), sn, ts)
                 ELSE <<seg>> \o FastackScan(Tail(buf), sn, ts)

parse_fastack(k, sn, ts) ==
    IF timediff(sn, k.snd_una) < 0 \/ timediff(sn, k.snd_nxt) >= 0 THEN k
    ELSE [k EXCEPT !.snd_buf = FastackScan(@, sn, ts)]

\* ack_push keeping one entry per sequence number
ack_push_Once(k, sn, ts) ==
    IF \E i \in 1..Len(k.acklist) : k.acklist[i][1] = sn THEN k
    ELSE [k EXCEPT !.acklist = Append(@, <<sn, ts>>)]

ack_push(k, sn, ts) == [k EXCEPT !.acklist = Append(@, <<sn, ts>>)]

\* the backward scan of parse_data that never finds sn to be there already
RECURSIVE DataScan_NoRepeat(_, _, _)
DataScan_NoRepeat(buf, sn, i) ==
    IF i = 0 THEN [repeat |-> FALSE, new_index |-> 0]
    ELSE IF timediff(sn, buf[i].sn) >= 0 THEN [repeat |-> FALSE, new_index |-> i]
    ELSE DataScan_NoRepeat(buf, sn, i - 1)

\* the backward scan of parse_data over rcv_buf[1..i]: whether sn is already
\* there, and the index after which the new segment goes
RECURSIVE DataScan(_, _, _)
DataScan(buf, sn, i) ==
    IF i = 0 THEN [repeat |-> FALSE, new_index |-> 0]
    ELSE IF buf[i].sn = sn THEN [repeat |-> TRUE, new_index |-> i]
    ELSE IF timediff(sn, buf[i].sn) > 0 THEN [repeat |-> FALSE, new_index |-> i]
    ELSE DataScan(buf, sn, i - 1)

\* parse_data storing the segment whether or not rcv_buf holds its sn already
parse_data_Again(k, new_segment) ==
    LET sn == new_segment.sn
    IN IF timediff(sn, k.rcv_nxt + k.rcv_wnd) >= 0 \/ timediff(sn, k.rcv_nxt) < 0 THEN k
       ELSE LET scan == DataScan(k.rcv_buf, sn, Len(k.rcv_buf))
                k1 == [k EXCEPT !.rcv_buf = SubSeq(@, 1, scan.new_index)
                                            \o <<new_segment>>
                                            \o SubSeq(@, scan.new_index + 1, Len(@))]
            IN move_buf(k1)

parse_data(k, new_segment) ==
    LET sn == new_segment.sn
    IN IF timediff(sn, k.rcv_nxt + k.rcv_wnd) >= 0 \/ timediff(sn, k.rcv_nxt) < 0 THEN k
       ELSE LET scan == DataScan(k.rcv_buf, sn, Len(k.rcv_buf))
                k1 == IF scan.repeat THEN k
                      ELSE [k EXCEPT !.rcv_buf = SubSeq(@, 1, scan.new_index)
                                                 \o <<new_segment>>
                                                 \o SubSeq(@, scan.new_index + 1, Len(@))]
            IN move_buf(k1)

input_conv(k) == [k EXCEPT !.input_conv = TRUE]

waiting_conv(k) == k.input_conv

set_conv(k, conv) == [k EXCEPT !.conv = conv]

\* the growth of the congestion window that is always the one of slow start
GrowCwnd_SlowStart(k) ==
    LET k1 == [k EXCEPT !.cwnd = @ + 1, !.incr = @ + k.mss]
    IN IF k1.cwnd > k1.rmt_wnd
       THEN [k1 EXCEPT !.cwnd = k1.rmt_wnd, !.incr = k1.rmt_wnd * k.mss]
       ELSE k1

\* the growth of the congestion window at the end of input
GrowCwnd(k) ==
    LET mss == k.mss
        k1 == IF k.cwnd < k.ssthresh
              THEN [k EXCEPT !.cwnd = @ + 1, !.incr = @ + mss]
              ELSE LET incr0 == IF k.incr < mss THEN mss ELSE k.incr
                       incr1 == incr0 + (mss * mss) \div incr0 + (mss \div 16)
                   IN [k EXCEPT !.incr = incr1,
                                !.cwnd = IF (@ + 1) * mss <= incr1
                                         THEN ((incr1 + mss - 1) \div (IF mss > 0 THEN mss ELSE 1)) % U16
                                         ELSE @]
    IN IF k1.cwnd > k1.rmt_wnd
       THEN [k1 EXCEPT !.cwnd = k1.rmt_wnd, !.incr = k1.rmt_wnd * mss]
       ELSE k1

\* the pass of input that adopts a conv and stays armed
InputSegment_StillArmed(st, w) ==
    LET k0 == st.k
        adopt == w.conv # k0.conv /\ k0.input_conv
        k1 == IF adopt THEN [k0 EXCEPT !.conv = w.conv] ELSE k0
    IN IF w.conv # k0.conv /\ ~k0.input_conv
       THEN [st EXCEPT !.err = "ConvInconsistent", !.info = <<k0.conv, w.conv>>]
       ELSE IF DataLen(w.data) < w.len THEN [st EXCEPT !.k = k1, !.err = "InvalidSegmentDataSize"]
       ELSE IF w.cmd \notin {KCP_CMD_PUSH, KCP_CMD_ACK, KCP_CMD_WASK, KCP_CMD_WINS}
            THEN [st EXCEPT !.k = k1, !.err = "UnsupportedCmd"]
       ELSE LET k2 == shrink_buf(parse_una([k1 EXCEPT !.rmt_wnd = w.wnd], w.una))
            IN IF w.cmd = KCP_CMD_ACK
               THEN LET rtt == timediff(k2.current, w.ts)
                        k3 == IF rtt >= 0 THEN update_ack(k2, rtt) ELSE k2
                        k4 == shrink_buf(parse_ack(k3, w.sn))
                        take == ~st.flag \/ (timediff(w.sn, st.max_ack) > 0
                                             /\ timediff(w.ts, st.latest_ts) > 0)
                    IN [st EXCEPT !.k = k4, !.flag = TRUE,
                                  !.max_ack = IF take THEN w.sn ELSE @,
                                  !.latest_ts = IF take THEN w.ts ELSE @,
                                  !.pos = @ + KCP_OVERHEAD + w.len]
               ELSE IF w.cmd = KCP_CMD_PUSH
               THEN LET acked == timediff(w.sn, k2.rcv_nxt + k2.rcv_wnd) < 0
                        k3 == IF acked THEN ack_push(k2, w.sn, w.ts) ELSE k2
                        segment == [new_with_data(TakeBytes(w.data, w.len))
                                      EXCEPT !.conv = w.conv, !.cmd = w.cmd, !.frg = w.frg,
                                             !.wnd = w.wnd, !.ts = w.ts, !.sn = w.sn,
                                             !.una = w.una]
                        k4 == IF acked /\ timediff(w.sn, k2.rcv_nxt) >= 0
                              THEN parse_data(k3, segment) ELSE k3
                    IN [st EXCEPT !.k = k4, !.pos = @ + KCP_OVERHEAD + w.len]
               ELSE IF w.cmd = KCP_CMD_WASK
               THEN [st EXCEPT !.k = [k2 EXCEPT !.probe = SetBit(@, KCP_ASK_TELL)],
                               !.pos = @ + KCP_OVERHEAD + w.len]
               ELSE [st EXCEPT !.k = k2, !.pos = @ + KCP_OVERHEAD + w.len]

\* one pass of the while loop of input over the segment w of the datagram; st
\* holds the control block, the locals flag, max_ack and latest_ts, and the
\* error the pass returns with, info being the two values of ConvInconsistent
InputSegment(st, w) ==
    LET k0 == st.k
        adopt == w.conv # k0.conv /\ k0.input_conv
        k1 == IF adopt THEN [k0 EXCEPT !.conv = w.conv, !.input_conv = FALSE] ELSE k0
    IN IF w.conv # k0.conv /\ ~k0.input_conv
       THEN [st EXCEPT !.err = "ConvInconsistent", !.info = <<k0.conv, w.conv>>]
       ELSE IF DataLen(w.data) < w.len THEN [st EXCEPT !.k = k1, !.err = "InvalidSegmentDataSize"]
       ELSE IF w.cmd \notin {KCP_CMD_PUSH, KCP_CMD_ACK, KCP_CMD_WASK, KCP_CMD_WINS}
            THEN [st EXCEPT !.k = k1, !.err = "UnsupportedCmd"]
       ELSE LET k2 == shrink_buf(parse_una([k1 EXCEPT !.rmt_wnd = w.wnd], w.una))
            IN IF w.cmd = KCP_CMD_ACK
               THEN LET rtt == timediff(k2.current, w.ts)
                        k3 == IF rtt >= 0 THEN update_ack(k2, rtt) ELSE k2
                        k4 == shrink_buf(parse_ack(k3, w.sn))
                        take == ~st.flag \/ (timediff(w.sn, st.max_ack) > 0
                                             /\ timediff(w.ts, st.latest_ts) > 0)
                    IN [st EXCEPT !.k = k4, !.flag = TRUE,
                                  !.max_ack = IF take THEN w.sn ELSE @,
                                  !.latest_ts = IF take THEN w.ts ELSE @,
                                  !.pos = @ + KCP_OVERHEAD + w.len]
               ELSE IF w.cmd = KCP_CMD_PUSH
               THEN LET acked == timediff(w.sn, k2.rcv_nxt + k2.rcv_wnd) < 0
                        k3 == IF acked THEN ack_push(k2, w.sn, w.ts) ELSE k2
                        segment == [new_with_data(TakeBytes(w.data, w.len))
                                      EXCEPT !.conv = w.conv, !.cmd = w.cmd, !.frg = w.frg,
                                             !.wnd = w.wnd, !.ts = w.ts, !.sn = w.sn,
                                             !.una = w.una]
                        k4 == IF acked /\ timediff(w.sn, k2.rcv_nxt) >= 0
                              THEN parse_data(k3, segment) ELSE k3
                    IN [st EXCEPT !.k = k4, !.pos = @ + KCP_OVERHEAD + w.len]
               ELSE IF w.cmd = KCP_CMD_WASK
               THEN [st EXCEPT !.k = [k2 EXCEPT !.probe = SetBit(@, KCP_ASK_TELL)],
                               !.pos = @ + KCP_OVERHEAD + w.len]
               ELSE [st EXCEPT !.k = k2, !.pos = @ + KCP_OVERHEAD + w.len]

\* the while loop of input over the segments segs[lo..hi], which stops at the
\* first error (halved, to keep the evaluation shallow on long datagrams)
RECURSIVE InputLoop(_, _, _, _)
InputLoop(st, segs, lo, hi) ==
    IF lo > hi \/ st.err # "Ok" THEN st
    ELSE IF lo = hi THEN InputSegment(st, segs[lo])
    ELSE LET mid == (lo + hi) \div 2
         IN With(LAMBDA half : InputLoop(half, segs, mid + 1, hi),
                 InputLoop(st, segs, lo, mid))

\* input(buf), buf being the encoded segments of one datagram: the control
\* block after the call, the result and the count of bytes consumed
input(k, buf) ==
    IF BufLen(buf) < KCP_OVERHEAD
    THEN [k |-> k, err |-> "InvalidSegmentSize", n |-> 0, info |-> <<>>]
    ELSE With(LAMBDA st :
                LET old_una == k.snd_una
                    k1 == IF st.flag THEN parse_fastack(st.k, st.max_ack, st.latest_ts)
                          ELSE st.k
                    k2 == IF timediff(k1.snd_una, old_una) > 0 /\ k1.cwnd < k1.rmt_wnd
                          THEN GrowCwnd(k1) ELSE k1
                IN IF st.err # "Ok" THEN [k |-> st.k, err |-> st.err, n |-> 0, info |-> st.info]
                   ELSE [k |-> k2, err |-> "Ok", n |-> st.pos, info |-> <<>>],
              InputLoop([k |-> k, flag |-> FALSE, max_ack |-> 0, latest_ts |-> 0,
                         err |-> "Ok", info |-> <<>>, pos |-> 0], buf, 1, Len(buf)))

\* ------------------------------------------------------------ flush

wnd_unused(k) ==
    IF Len(k.rcv_queue) < k.rcv_wnd THEN k.rcv_wnd - (Len(k.rcv_queue) % U16) ELSE 0

\* self.output.write_all(&self.buf): out is the sequence of writes made to the
\* sink so far; write_all of an empty buffer writes nothing
write_all(out, buf) == IF buf = <<>> THEN out ELSE Append(out, buf)

\* the check `buf.len() + need > mtu` that drains the scratch buffer to the
\* sink, followed by the encode of seg into it; st holds the control block
\* and the writes made so far
Emit(st, seg) ==
    LET drain == BufLen(st.k.buf) + encoded_len(seg) > st.k.mtu
    IN [st EXCEPT !.out = IF drain THEN write_all(@, st.k.buf) ELSE @,
                  !.k.buf = (IF drain THEN <<>> ELSE @) \o <<encode(seg)>>]

\* the loop of _flush_ack over acklist[lo..hi]; st also holds the template
\* segment (halved, to keep the evaluation shallow on long lists)
RECURSIVE AckLoop(_, _, _)
AckLoop(st, lo, hi) ==
    IF lo > hi THEN st
    ELSE IF lo = hi
    THEN LET segment == [st.segment EXCEPT !.sn = st.k.acklist[lo][1],
                                           !.ts = st.k.acklist[lo][2]]
         IN Emit([st EXCEPT !.segment = segment], segment)
    ELSE LET mid == (lo + hi) \div 2
         IN With(LAMBDA half : AckLoop(half, mid + 1, hi), AckLoop(st, lo, mid))

_flush_ack(st) == [AckLoop(st, 1, Len(st.k.acklist)) EXCEPT !.k.acklist = <<>>]

\* probe_wnd_size asking at every flush that sees a closed window
probe_wnd_size_NoWait(k) ==
    IF k.rmt_wnd = 0
    THEN IF k.probe_wait = 0
         THEN [k EXCEPT !.probe_wait = KCP_PROBE_INIT, !.ts_probe = k.current + KCP_PROBE_INIT]
         ELSE LET w0 == IF k.probe_wait < KCP_PROBE_INIT THEN KCP_PROBE_INIT
                        ELSE k.probe_wait
                  w1 == w0 + w0 \div 2
                  w2 == IF w1 > KCP_PROBE_LIMIT THEN KCP_PROBE_LIMIT ELSE w1
              IN [k EXCEPT !.probe_wait = w2, !.ts_probe = k.current + w2,
                           !.probe = SetBit(@, KCP_ASK_SEND)]
    ELSE [k EXCEPT !.ts_probe = 0, !.probe_wait = 0]

probe_wnd_size(k) ==
    IF k.rmt_wnd = 0
    THEN IF k.probe_wait = 0
         THEN [k EXCEPT !.probe_wait = KCP_PROBE_INIT, !.ts_probe = k.current + KCP_PROBE_INIT]
         ELSE IF timediff(k.current, k.ts_probe) >= 0
              THEN LET w0 == IF k.probe_wait < KCP_PROBE_INIT THEN KCP_PROBE_INIT
                             ELSE k.probe_wait
                       w1 == w0 + w0 \div 2
                       w2 == IF w1 > KCP_PROBE_LIMIT THEN KCP_PROBE_LIMIT ELSE w1
                   IN [k EXCEPT !.probe_wait = w2, !.ts_probe = k.current + w2,
                                !.probe = SetBit(@, KCP_ASK_SEND)]
              ELSE k
    ELSE [k EXCEPT !.ts_probe = 0, !.probe_wait = 0]

_flush_probe_commands(st, cmd) ==
    LET segment == [st.segment EXCEPT !.cmd = cmd]
    IN Emit([st EXCEPT !.segment = segment], segment)

flush_probe_commands(st) ==
    LET st1 == IF HasBit(st.k.probe, KCP_ASK_SEND)
               THEN _flush_probe_commands(st, KCP_CMD_WASK) ELSE st
        st2 == IF HasBit(st.k.probe, KCP_ASK_TELL)
               THEN _flush_probe_commands(st1, KCP_CMD_WINS) ELSE st1
    IN [st2 EXCEPT !.k.probe = 0]

\* the template segment flush and flush_ack start from
Template(k) ==
    [new_with_data(<<>>) EXCEPT !.conv = k.conv, !.cmd = KCP_CMD_ACK,
                                !.wnd = wnd_unused(k), !.una = k.rcv_nxt]

\* flush_ack not asking whether update was called
flush_ack_NoCheck(k) ==
    LET st == _flush_ack([k |-> k, out |-> <<>>, segment |-> Template(k)])
    IN [k |-> st.k, err |-> "Ok", out |-> st.out]

\* Flush pending ACKs: the control block after the call, the result and the
\* writes made to the sink
flush_ack(k) ==
    IF ~k.updated THEN [k |-> k, err |-> "NeedUpdate", out |-> <<>>]
    ELSE LET st == _flush_ack([k |-> k, out |-> <<>>, segment |-> Template(k)])
         IN [k |-> st.k, err |-> "Ok", out |-> st.out]

\* the promotion of flush without its window check: all of snd_queue moves
RECURSIVE Promote_NoWindow(_, _, _)
Promote_NoWindow(k, cwnd, wnd) ==
    IF k.snd_queue # <<>>
    THEN LET new_segment == [Head(k.snd_queue) EXCEPT
                                !.conv = k.conv, !.cmd = KCP_CMD_PUSH, !.wnd = wnd,
                                !.ts = k.current, !.sn = k.snd_nxt, !.una = k.rcv_nxt,
                                !.resendts = k.current, !.rto = k.rx_rto,
                                !.fastack = 0, !.xmit = 0]
         IN Promote_NoWindow([k EXCEPT !.snd_queue = Tail(@), !.snd_nxt = @ + 1,
                                       !.snd_buf = Append(@, new_segment)], cwnd, wnd)
    ELSE k

\* the promotion of flush numbering a segment by the count of segments in
\* flight instead of snd_nxt
RECURSIVE Promote_Recount(_, _, _)
Promote_Recount(k, cwnd, wnd) ==
    IF timediff(k.snd_nxt, k.snd_una + cwnd) < 0 /\ k.snd_queue # <<>>
    THEN LET new_segment == [Head(k.snd_queue) EXCEPT
                                !.conv = k.conv, !.cmd = KCP_CMD_PUSH, !.wnd = wnd,
                                !.ts = k.current, !.sn = k.snd_una + Len(k.snd_buf),
                                !.una = k.rcv_nxt,
                                !.resendts = k.current, !.rto = k.rx_rto,
                                !.fastack = 0, !.xmit = 0]
         IN With(LAMBDA k1 : Promote_Recount(k1, cwnd, wnd),
                 [k EXCEPT !.snd_queue = Tail(@), !.snd_nxt = @ + 1,
                           !.snd_buf = Append(@, new_segment)])
    ELSE k

\* move data from snd_queue to snd_buf, cwnd being the window computed by flush
\* and wnd the template's wnd
RECURSIVE Promote(_, _, _)
Promote(k, cwnd, wnd) ==
    IF timediff(k.snd_nxt, k.snd_una + cwnd) < 0 /\ k.snd_queue # <<>>
    THEN LET new_segment == [Head(k.snd_queue) EXCEPT
                                !.conv = k.conv, !.cmd = KCP_CMD_PUSH, !.wnd = wnd,
                                !.ts = k.current, !.sn = k.snd_nxt, !.una = k.rcv_nxt,
                                !.resendts = k.current, !.rto = k.rx_rto,
                                !.fastack = 0, !.xmit = 0]
         IN With(LAMBDA k1 : Promote(k1, cwnd, wnd),
                 [k EXCEPT !.snd_queue = Tail(@), !.snd_nxt = @ + 1,
                           !.snd_buf = Append(@, new_segment)])
    ELSE k

\* the branch of the transmission pass with no retransmission on timeout
SendKind_NoTimeout(k, snd_segment) ==
    IF snd_segment.xmit = 0 THEN "first"
    ELSE IF k.fastresend > 0 /\ snd_segment.fastack >= k.fastresend
            /\ (snd_segment.xmit <= k.fastlimit \/ k.fastlimit <= 0) THEN "fast"
    ELSE "none"

\* the transmission pass of a control block that stops sending once the link
\* is marked dead
SendKind_DeadStops(k, snd_segment) ==
    IF k.state # 0 THEN "none"
    ELSE IF snd_segment.xmit = 0 THEN "first"
    ELSE IF timediff(k.current, snd_segment.resendts) >= 0 THEN "timeout"
    ELSE IF k.fastresend > 0 /\ snd_segment.fastack >= k.fastresend
            /\ (snd_segment.xmit <= k.fastlimit \/ k.fastlimit <= 0) THEN "fast"
    ELSE "none"

\* the branch taken when the fast retransmissions of a segment are not limited
SendKind_NoLimit(k, snd_segment) ==
    IF snd_segment.xmit = 0 THEN "first"
    ELSE IF timediff(k.current, snd_segment.resendts) >= 0 THEN "timeout"
    ELSE IF k.fastresend > 0 /\ snd_segment.fastack >= k.fastresend THEN "fast"
    ELSE "none"

\* which branch the transmission pass of flush takes for snd_segment: "first",
\* "timeout", "fast" or "none".  resent is fastresend when that is > 0 and
\* u32::max_value() otherwise, which no fastack counter reaches
SendKind(k, snd_segment) ==
    IF snd_segment.xmit = 0 THEN "first"
    ELSE IF timediff(k.current, snd_segment.resendts) >= 0 THEN "timeout"
    ELSE IF k.fastresend > 0 /\ snd_segment.fastack >= k.fastresend
            /\ (snd_segment.xmit <= k.fastlimit \/ k.fastlimit <= 0) THEN "fast"
    ELSE "none"

\* snd_segment after the branch of that kind
Resend(k, snd_segment, kind) ==
    LET rtomin == IF ~k.nodelay THEN k.rx_rto \div 8 ELSE 0
        s1 == IF kind = "first"
              THEN [snd_segment EXCEPT !.xmit = @ + 1, !.rto = k.rx_rto,
                                       !.resendts = k.current + k.rx_rto + rtomin]
              ELSE IF kind = "timeout"
              THEN LET rto == IF ~k.nodelay
                              THEN snd_segment.rto + Max(snd_segment.rto, k.rx_rto)
                              ELSE snd_segment.rto + snd_segment.rto \div 2
                   IN [snd_segment EXCEPT !.xmit = @ + 1, !.rto = rto,
                                          !.resendts = k.current + rto]
              ELSE IF kind = "fast"
              THEN [snd_segment EXCEPT !.xmit = @ + 1, !.fastack = 0,
                                       !.resendts = k.current + snd_segment.rto]
              ELSE snd_segment
    IN IF kind = "none" THEN s1
       ELSE [s1 EXCEPT !.ts = k.current, !.una = k.rcv_nxt]

\* the transmission pass of flush over snd_buf[i..]; st also holds lost and change
RECURSIVE SendLoop(_, _)
SendLoop(st, i) ==
    IF i > Len(st.k.snd_buf) THEN st
    ELSE LET k == st.k
             kind == SendKind(k, k.snd_buf[i])
             seg == IF kind = "none" THEN k.snd_buf[i]
                    ELSE [Resend(k, k.snd_buf[i], kind) EXCEPT !.wnd = st.segment.wnd]
             st1 == [st EXCEPT !.k.snd_buf[i] = seg,
                               !.k.xmit = IF kind = "timeout" THEN @ + 1 ELSE @,
                               !.lost = @ \/ kind = "timeout",
                               !.change = IF kind = "fast" THEN @ + 1 ELSE @]
             st2 == IF kind = "none" THEN st1
                    ELSE [Emit(st1, seg) EXCEPT
                            !.k.state = IF seg.xmit >= k.dead_link THEN -1 ELSE @]
         IN With(LAMBDA next : SendLoop(next, i + 1), st2)

\* the end of a flush in which the reaction to a timeout is skipped when a
\* fast retransmission happened too
Congestion_FastWins(k, cwnd, lost, change) ==
    LET k1 == IF change > 0
              THEN LET inflight == k.snd_nxt - k.snd_una
                       ssthresh == Max((inflight % U16) \div 2, KCP_THRESH_MIN)
                       c == ssthresh + (k.fastresend % U16)
                   IN [k EXCEPT !.ssthresh = ssthresh, !.cwnd = c, !.incr = c * k.mss]
              ELSE k
        k2 == IF lost /\ change = 0
              THEN [k1 EXCEPT !.ssthresh = Max(cwnd \div 2, KCP_THRESH_MIN),
                              !.cwnd = 1, !.incr = k.mss]
              ELSE k1
    IN IF k2.cwnd < 1 THEN [k2 EXCEPT !.cwnd = 1, !.incr = k.mss] ELSE k2

\* update ssthresh: the end of flush, cwnd being the window computed by flush
Congestion(k, cwnd, lost, change) ==
    LET k1 == IF change > 0
              THEN LET inflight == k.snd_nxt - k.snd_una
                       ssthresh == Max((inflight % U16) \div 2, KCP_THRESH_MIN)
                       c == ssthresh + (k.fastresend % U16)
                   IN [k EXCEPT !.ssthresh = ssthresh, !.cwnd = c, !.incr = c * k.mss]
              ELSE k
        k2 == IF lost
              THEN [k1 EXCEPT !.ssthresh = Max(cwnd \div 2, KCP_THRESH_MIN),
                              !.cwnd = 1, !.incr = k.mss]
              ELSE k1
    IN IF k2.cwnd < 1 THEN [k2 EXCEPT !.cwnd = 1, !.incr = k.mss] ELSE k2

\* the window flush promotes against
FlushWnd(k) ==
    IF ~k.nocwnd THEN Min(k.cwnd, Min(k.snd_wnd, k.rmt_wnd)) ELSE Min(k.snd_wnd, k.rmt_wnd)

\* Flush pending data: the control block after the call, the result and the
\* writes made to the sink (the sink of this model never fails)
flush(k) ==
    IF ~k.updated THEN [k |-> k, err |-> "NeedUpdate", out |-> <<>>]
    ELSE With(LAMBDA st2 :
           With(LAMBDA cwnd :
           With(LAMBDA st3 :
           With(LAMBDA st4 :
                LET out == write_all(st4.out, st4.k.buf)
                    k5 == Congestion([st4.k EXCEPT !.buf = <<>>], cwnd, st4.lost, st4.change)
                IN [k |-> k5, err |-> "Ok", out |-> out],
              SendLoop([k |-> st3.k, out |-> st3.out, segment |-> st3.segment,
                        lost |-> FALSE, change |-> 0], 1)),
              [st2 EXCEPT !.k = Promote(@, cwnd, st2.segment.wnd)]),
              FlushWnd(st2.k)),
              flush_probe_commands(
                  With(LAMBDA st1 : [st1 EXCEPT !.k = probe_wnd_size(@)],
                       _flush_ack(With(LAMBDA k0 : [k |-> k0, out |-> <<>>,
                                                    segment |-> Template(k0)], k)))))

\* ------------------------------------------------------------ update, check

\* update taking the clock for off when it is 10000 ms or more away, before
\* ts_flush as well as after it
UpdateClock_EitherWay(k, current) ==
    LET k1 == [k EXCEPT !.current = current]
        k2 == IF ~k1.updated THEN [k1 EXCEPT !.updated = TRUE, !.ts_flush = current] ELSE k1
        slap0 == timediff(k2.current, k2.ts_flush)
        reset == slap0 >= 10000 \/ slap0 <= -10000
        k3 == IF reset THEN [k2 EXCEPT !.ts_flush = current] ELSE k2
        slap == IF reset THEN 0 ELSE slap0
    IN IF slap >= 0
       THEN LET t1 == k3.ts_flush + k3.interval
                t2 == IF timediff(k3.current, t1) >= 0 THEN k3.current + k3.interval ELSE t1
            IN [k |-> [k3 EXCEPT !.ts_flush = t2], flush |-> TRUE]
       ELSE [k |-> k3, flush |-> FALSE]

\* update up to its call of flush: the control block then, and whether flush
\* is called
UpdateClock(k, current) ==
    LET k1 == [k EXCEPT !.current = current]
        k2 == IF ~k1.updated THEN [k1 EXCEPT !.updated = TRUE, !.ts_flush = current] ELSE k1
        slap0 == timediff(k2.current, k2.ts_flush)
        reset == slap0 >= 10000 \/ slap0 < -10000
        k3 == IF reset THEN [k2 EXCEPT !.ts_flush = current] ELSE k2
        slap == IF reset THEN 0 ELSE slap0
    IN IF slap >= 0
       THEN LET t1 == k3.ts_flush + k3.interval
                t2 == IF timediff(k3.current, t1) >= 0 THEN k3.current + k3.interval ELSE t1
            IN [k |-> [k3 EXCEPT !.ts_flush = t2], flush |-> TRUE]
       ELSE [k |-> k3, flush |-> FALSE]

update(k, current) ==
    With(LAMBDA u : IF u.flush THEN flush(u.k) ELSE [k |-> u.k, err |-> "Ok", out |-> <<>>],
         UpdateClock(k, current))

\* the loop of check passing over the segments that are due
RECURSIVE PacketWait_Overdue(_, _, _)
PacketWait_Overdue(buf, current, tm_packet) ==
    IF buf = <<>> THEN tm_packet
    ELSE LET diff == timediff(Head(buf).resendts, current)
         IN PacketWait_Overdue(Tail(buf), current,
                               IF diff > 0 /\ (tm_packet = -1 \/ diff < tm_packet)
                               THEN diff ELSE tm_packet)

\* the loop of check over snd_buf: 0 when a segment is due, else the smallest
\* wait; none stands for the initial u32::max_value()
RECURSIVE PacketWait(_, _, _)
PacketWait(buf, current, tm_packet) ==
    IF buf = <<>> THEN tm_packet
    ELSE LET diff == timediff(Head(buf).resendts, current)
         IN IF diff <= 0 THEN 0
            ELSE PacketWait(Tail(buf), current,
                            IF tm_packet = -1 \/ diff < tm_packet THEN diff ELSE tm_packet)

\* check looking at the flush time only
check_NoPackets(k, current) ==
    IF ~k.updated THEN 0
    ELSE LET ts_flush == IF timediff(current, k.ts_flush) >= 10000
                            \/ timediff(current, k.ts_flush) < -10000
                         THEN current ELSE k.ts_flush
         IN IF timediff(current, ts_flush) >= 0 THEN 0
            ELSE LET tm_flush == timediff(ts_flush, current)
                 IN IF tm_flush >= k.interval THEN k.interval ELSE tm_flush

check(k, current) ==
    IF ~k.updated THEN 0
    ELSE LET ts_flush == IF timediff(current, k.ts_flush) >= 10000
                            \/ timediff(current, k.ts_flush) < -10000
                         THEN current ELSE k.ts_flush
         IN IF timediff(current, ts_flush) >= 0 THEN 0
            ELSE LET tm_flush == timediff(ts_flush, current)
                     tm_packet == PacketWait(k.snd_buf, current, -1)
                 IN IF tm_packet = 0 THEN 0
                    ELSE LET minimal == IF tm_packet = -1 THEN tm_flush
                                        ELSE Min(tm_packet, tm_flush)
                         IN IF minimal >= k.interval THEN k.interval ELSE minimal

\* ------------------------------------------------------------ tuning

set_mtu(k, mtu) ==
    IF mtu < 50 \/ mtu < KCP_OVERHEAD THEN [k |-> k, err |-> "InvalidMtu"]
    ELSE [k |-> [k EXCEPT !.mtu = mtu, !.mss = mtu - KCP_OVERHEAD], err |-> "Ok"]

set_interval(k, interval) ==
    [k EXCEPT !.interval = IF interval > 5000 THEN 5000
                           ELSE IF interval < 10 THEN 10 ELSE interval]

set_nodelay(k, nodelay, interval, resend, nc) ==
    [k EXCEPT !.nodelay = nodelay,
              !.rx_minrto = IF nodelay THEN KCP_RTO_NDL ELSE KCP_RTO_MIN,
              !.interval = IF interval < 10 THEN 10
                           ELSE IF interval > 5000 THEN 5000 ELSE interval,
              !.fastresend = IF resend >= 0 THEN resend ELSE @,
              !.nocwnd = nc]

set_wndsize(k, sndwnd, rcvwnd) ==
    [k EXCEPT !.snd_wnd = IF sndwnd > 0 THEN sndwnd ELSE @,
              !.rcv_wnd = IF rcvwnd > 0 THEN Max(rcvwnd, KCP_WND_RCV) ELSE @]

wait_snd(k) == Len(k.snd_buf) + Len(k.snd_queue)

set_rx_minrto(k, rto) == [k EXCEPT !.rx_minrto = rto]

set_fast_resend(k, fr) == [k EXCEPT !.fastresend = fr]

set_maximum_resend_times(k, dead_link) == [k EXCEPT !.dead_link = dead_link]

is_dead_link(k) == k.state # 0

\* ------------------------------------------------------------ the drivers

\* bounds of the model
MaxMsgs == 2
MaxTicks == 3
AdvTicks == 2
MaxPush == 2
MaxDup == 1
MaxInput == 1
MaxTune == 1
MaxDrops == 1
LiveTicks == 40

Ends == {"A", "B"}

Peer(e) == IF e = "A" THEN "B" ELSE "A"

\* the conv both endpoints are created with
Conv == 1

\* the callers read the clock once per initial retransmission timeout
\* (rx_rto + rx_rto / 8 after construction)
TickMs == KCP_RTO_DEF + KCP_RTO_DEF \div 8

\* the lengths of the buffers given to send: one segment, and two fragments
\* with the default mss
MsgLens == {1, KCP_MTU_DEF}

\* the lengths of the buffers given to recv
BufLens == {2 * KCP_MTU_DEF}

VARIABLES
    kcp,        \* the control block of each endpoint
    net,        \* the datagrams written to a sink and not yet delivered
    now,        \* the clock the callers read
    sent,       \* per endpoint, the buffers its successful send calls were given
    delivered,  \* per endpoint, the buffers its successful recv calls returned
    last,       \* the last call on the endpoint fed forged segments: its name,
                \* its result, its writes to the sink and the datagram it was given
    used        \* how many duplicate deliveries, forged inputs, tuning calls and
                \* drops so far

vars == <<kcp, net, now, sent, delivered, last, used>>

Init ==
    /\ kcp = [e \in Ends |-> construct(Conv, FALSE)]
    /\ net = {}
    /\ now = 0
    /\ sent = [e \in Ends |-> <<>>]
    /\ delivered = [e \in Ends |-> <<>>]
    /\ last = [op |-> "new", err |-> "Ok", out |-> <<>>, arg |-> <<>>]
    /\ used = [dup |-> 0, input |-> 0, tune |-> 0, drop |-> 0]

\* the writes of endpoint e, as datagrams on their way to its peer
Datagrams(e, out) == {[to |-> Peer(e), segs |-> out[i]] : i \in 1..Len(out)}

\* the caller's clock advances
Tick ==
    /\ now < MaxTicks * TickMs
    /\ now' = now + TickMs
    /\ UNCHANGED <<kcp, net, sent, delivered, last, used>>

\* endpoint e calls send with a new buffer of len bytes
Send(e, len) ==
    /\ Len(sent[e]) < MaxMsgs
    /\ LET buf == Buffer(Len(sent[e]) + 1, len)
           r == send(kcp[e], buf)
       IN /\ kcp' = [kcp EXCEPT ![e] = r.k]
          /\ sent' = IF r.err = "Ok" THEN [sent EXCEPT ![e] = Append(@, buf)] ELSE sent
    /\ UNCHANGED <<net, now, delivered, last, used>>

\* endpoint e calls recv with a buffer of buflen bytes
Recv(e, buflen) ==
    /\ LET r == recv(kcp[e], buflen)
       IN /\ kcp' = [kcp EXCEPT ![e] = r.k]
          /\ delivered' = IF r.err = "Ok" THEN [delivered EXCEPT ![e] = Append(@, r.data)]
                          ELSE delivered
    /\ UNCHANGED <<net, now, sent, last, used>>

\* endpoint e calls update with the caller's clock; its sink hands the
\* datagrams to the network
Update(e) ==
    /\ LET r == update(kcp[e], now)
       IN /\ kcp' = [kcp EXCEPT ![e] = r.k]
          /\ net' = net \cup Datagrams(e, r.out)
    /\ UNCHANGED <<now, sent, delivered, last, used>>

\* the network delivers datagram d: its receiver calls input
Deliver(d) ==
    /\ kcp' = [kcp EXCEPT ![d.to] = input(@, d.segs).k]
    /\ net' = net \ {d}
    /\ UNCHANGED <<now, sent, delivered, last, used>>

\* the network delivers a copy of datagram d and keeps d
Duplicate(d) ==
    /\ used.dup < MaxDup
    /\ kcp' = [kcp EXCEPT ![d.to] = input(@, d.segs).k]
    /\ used' = [used EXCEPT !.dup = @ + 1]
    /\ UNCHANGED <<net, now, sent, delivered, last>>

\* Two endpoints, A sending to B, over a network that delays, reorders and
\* duplicates; a datagram that is never delivered is a dropped one.
Next ==
    \/ Tick
    \/ \E len \in MsgLens : Send("A", len)
    \/ \E buflen \in BufLens : Recv("B", buflen)
    \/ \E e \in Ends : Update(e)
    \/ \E d \in net : Deliver(d)
    \/ \E d \in net : Duplicate(d)

Spec == Init /\ [][Next]_vars

\* ------------------------------------------------------------ one endpoint, any peer

\* a segment as a peer may encode it
Wire(cmd, frg, wnd, ts, sn, una, data) ==
    [conv |-> Conv, cmd |-> cmd, frg |-> frg, wnd |-> wnd, ts |-> ts, sn |-> sn,
     una |-> una, len |-> DataLen(data), data |-> data]

\* the bytes of a forged payload: buffer 0 is no buffer of a send call
Forged == Buffer(0, 1)

\* PUSH segments with the sequence numbers lo .. hi, in that order
Burst(lo, hi) ==
    [i \in 1..(hi - lo + 1) |-> Wire(KCP_CMD_PUSH, 0, KCP_WND_RCV, 0, lo + i - 1, 0, Forged)]

\* the datagrams a peer may send to a control block in state k at time t: an
\* ACK with sn and una inside and beyond the send window and a ts in the past
\* or in the future; a PUSH inside and beyond the receive window; two PUSH
\* segments out of order; a window probe; and a window announcement of 0 or more
Datagram(k, t) ==
    { <<Wire(KCP_CMD_ACK, 0, KCP_WND_RCV, ts, sn, una, <<>>)>> :
        ts \in {0, t + TickMs},
        sn \in {k.snd_una, k.snd_una + 1, k.snd_nxt},
        una \in {0, k.snd_una + 1, k.snd_nxt + 1} }
    \cup { <<Wire(KCP_CMD_PUSH, 0, KCP_WND_RCV, 0, sn, 0, Forged)>> :
        sn \in {k.rcv_nxt, k.rcv_nxt + 1, k.rcv_nxt + k.rcv_wnd} }
    \cup { <<Wire(KCP_CMD_PUSH, 0, KCP_WND_RCV, 0, k.rcv_nxt + 1, 0, Forged),
             Wire(KCP_CMD_PUSH, 0, KCP_WND_RCV, 0, k.rcv_nxt, 0, Forged)>> }
    \cup { <<Wire(KCP_CMD_WASK, 0, KCP_WND_RCV, 0, 0, 0, <<>>)>> }
    \cup { <<Wire(KCP_CMD_WINS, 0, wnd, 0, 0, 0, <<>>)>> : wnd \in {0, KCP_WND_RCV} }

\* a call on endpoint A that returned r
Called(op, r, arg) ==
    /\ kcp' = [kcp EXCEPT !["A"] = r.k]
    /\ last' = [op |-> op, err |-> r.err, out |-> r.out, arg |-> arg]

ASend(len) ==
    /\ Len(sent["A"]) < MaxMsgs
    /\ LET buf == Buffer(Len(sent["A"]) + 1, len)
           r == send(kcp["A"], buf)
       IN /\ Called("send", [k |-> r.k, err |-> r.err, out |-> <<>>], <<>>)
          /\ sent' = IF r.err = "Ok" THEN [sent EXCEPT !["A"] = Append(@, buf)] ELSE sent
    /\ UNCHANGED <<net, now, delivered, used>>

ARecv(buflen) ==
    /\ LET r == recv(kcp["A"], buflen)
       IN /\ Called("recv", [k |-> r.k, err |-> r.err, out |-> <<>>], <<>>)
          /\ delivered' = IF r.err = "Ok"
                          THEN [delivered EXCEPT !["A"] = Append(@, r.data)]
                          ELSE delivered
    /\ UNCHANGED <<net, now, sent, used>>

AUpdate ==
    /\ Called("update", update(kcp["A"], now), <<>>)
    /\ UNCHANGED <<net, now, sent, delivered, used>>

AFlush ==
    /\ Called("flush", flush(kcp["A"]), <<>>)
    /\ UNCHANGED <<net, now, sent, delivered, used>>

AFlushAck ==
    /\ Called("flush_ack", flush_ack(kcp["A"]), <<>>)
    /\ UNCHANGED <<net, now, sent, delivered, used>>

AInput(d) ==
    /\ used.input < MaxInput
    /\ LET r == input(kcp["A"], d)
       IN Called("input", [k |-> r.k, err |-> r.err, out |-> <<>>], d)
    /\ used' = [used EXCEPT !.input = @ + 1]
    /\ UNCHANGED <<net, now, sent, delivered>>

\* a tuning call that leaves the control block k
Tuned(op, k, err) ==
    /\ used.tune < MaxTune
    /\ Called(op, [k |-> k, err |-> err, out |-> <<>>], <<>>)
    /\ used' = [used EXCEPT !.tune = @ + 1]
    /\ UNCHANGED <<net, now, sent, delivered>>

ASetMtu(mtu) == Tuned("set_mtu", set_mtu(kcp["A"], mtu).k, set_mtu(kcp["A"], mtu).err)

ASetWndsize(sndwnd, rcvwnd) == Tuned("set_wndsize", set_wndsize(kcp["A"], sndwnd, rcvwnd), "Ok")

ASetNodelay(nodelay, interval, resend, nc) ==
    Tuned("set_nodelay", set_nodelay(kcp["A"], nodelay, interval, resend, nc), "Ok")

ASetInterval(interval) == Tuned("set_interval", set_interval(kcp["A"], interval), "Ok")

ASetRxMinrto(rto) == Tuned("set_rx_minrto", set_rx_minrto(kcp["A"], rto), "Ok")

ASetFastResend(fr) == Tuned("set_fast_resend", set_fast_resend(kcp["A"], fr), "Ok")

ASetMaximumResendTimes(n) ==
    Tuned("set_maximum_resend_times", set_maximum_resend_times(kcp["A"], n), "Ok")

\* the caller's clock advances, for the endpoint on its own
ATick ==
    /\ now < AdvTicks * TickMs
    /\ now' = now + TickMs
    /\ UNCHANGED <<kcp, net, sent, delivered, last, used>>

\* Endpoint A alone, called in any order, with input of whatever a peer may send
AdvNext ==
    \/ ATick
    \/ \E len \in MsgLens : ASend(len)
    \/ \E buflen \in BufLens : ARecv(buflen)
    \/ AUpdate
    \/ AFlush
    \/ AFlushAck
    \/ \E d \in Datagram(kcp["A"], now) : AInput(d)
    \/ ASetMtu(50)
    \/ ASetWndsize(1, 0)
    \/ \E nodelay \in BOOLEAN : ASetNodelay(nodelay, 10, 1, TRUE)
    \/ ASetInterval(10)
    \/ \E rto \in {10, KCP_RTO_MAX + 1} : ASetRxMinrto(rto)
    \/ ASetFastResend(1)
    \/ ASetMaximumResendTimes(2)

AdvSpec == Init /\ [][AdvNext]_vars

\* ------------------------------------------------------------ one endpoint, receiving

\* the data a peer may send to a control block in state k: a PUSH below,
\* inside, at the end of and beyond the receive window, and enough PUSH
\* segments in a row to fill rcv_queue and to leave one more in rcv_buf
PushDatagram(k) ==
    { <<Wire(KCP_CMD_PUSH, 0, KCP_WND_RCV, 0, sn, 0, Forged)>> :
        sn \in {0, k.rcv_nxt, k.rcv_nxt + 1, k.rcv_nxt + k.rcv_wnd - 1,
                k.rcv_nxt + k.rcv_wnd} }
    \cup { Burst(k.rcv_nxt, k.rcv_nxt + k.rcv_wnd) }

RInput(d) ==
    /\ used.input < MaxPush
    /\ LET r == input(kcp["A"], d)
       IN Called("input", [k |-> r.k, err |-> r.err, out |-> <<>>], d)
    /\ used' = [used EXCEPT !.input = @ + 1]
    /\ UNCHANGED <<net, now, sent, delivered>>

RSetWndsize(rcvwnd) ==
    /\ Called("set_wndsize", [k |-> set_wndsize(kcp["A"], 0, rcvwnd), err |-> "Ok",
                              out |-> <<>>], <<>>)
    /\ UNCHANGED <<net, now, sent, delivered, used>>

\* Endpoint A alone, receiving data and changing its receive window
RcvNext ==
    \/ \E d \in PushDatagram(kcp["A"]) : RInput(d)
    \/ \E buflen \in BufLens : ARecv(buflen)
    \/ \E rcvwnd \in {KCP_WND_RCV, KCP_WND_RCV + 1} : RSetWndsize(rcvwnd)

RcvSpec == Init /\ [][RcvNext]_vars

\* ------------------------------------------------------------ two endpoints, driven in rounds

\* all that A sent has been returned to B, and A waits for no acknowledgement
AllDone == delivered["B"] = sent["A"] /\ wait_snd(kcp["A"]) = 0

\* the network loses datagram d
Drop(d) ==
    /\ used.drop < MaxDrops
    /\ net' = net \ {d}
    /\ used' = [used EXCEPT !.drop = @ + 1]
    /\ UNCHANGED <<kcp, now, sent, delivered, last>>

\* the end of a round, while work remains: both endpoints have called update
\* with the current time, B's recv has nothing more to return, and the
\* network has delivered or lost what it was given
RoundTick ==
    /\ ~AllDone
    /\ now < LiveTicks * TickMs
    /\ \A e \in Ends : kcp[e].updated /\ kcp[e].current = now
    /\ \A buflen \in BufLens : recv(kcp["B"], buflen).err # "Ok"
    /\ net = {}
    /\ now' = now + TickMs
    /\ UNCHANGED <<kcp, net, sent, delivered, last, used>>

\* the length of the next buffer A sends: two fragments first, then one byte
LiveLen == IF sent["A"] = <<>> THEN KCP_MTU_DEF ELSE 1

\* A sending to B as the callers of the tests do, round after round, over a
\* network that loses and reorders datagrams
LiveNext ==
    \/ RoundTick
    \/ Send("A", LiveLen)
    \/ \E buflen \in BufLens : Recv("B", buflen)
    \/ \E e \in Ends : Update(e)
    \/ \E d \in net : Deliver(d)
    \/ \E d \in net : Drop(d)

\* update and recv are called again and again, the clock advances, and the
\* network delivers what it has not lost
LiveSpec ==
    /\ Init
    /\ [][LiveNext]_vars
    /\ WF_vars(RoundTick)
    /\ WF_vars(\E buflen \in BufLens : Recv("B", buflen))
    /\ \A e \in Ends : WF_vars(Update(e))
    /\ WF_vars(\E d \in net : Deliver(d))

\* ------------------------------------------------------------ one endpoint, datagrams delivered twice

\* the datagrams whose second delivery is of interest to a control block in
\* state k: an ACK of the first or the second segment in flight, a PUSH at and
\* after rcv_nxt, a PUSH beyond the receive window followed by the one at
\* rcv_nxt, a window probe and an announcement of a closed window
DupDatagram(k) ==
    { <<Wire(KCP_CMD_ACK, 0, KCP_WND_RCV, 0, sn, k.snd_una, <<>>)>> :
        sn \in {k.snd_una, k.snd_una + 1} }
    \cup { <<Wire(KCP_CMD_PUSH, 0, KCP_WND_RCV, 0, sn, 0, Forged)>> :
        sn \in {k.rcv_nxt, k.rcv_nxt + 1} }
    \cup { <<Wire(KCP_CMD_PUSH, 0, KCP_WND_RCV, 0, k.rcv_nxt + k.rcv_wnd, 0, Forged),
             Wire(KCP_CMD_PUSH, 0, KCP_WND_RCV, 0, k.rcv_nxt, 0, Forged)>> }
    \cup { <<Wire(KCP_CMD_WASK, 0, KCP_WND_RCV, 0, 0, 0, <<>>)>> }
    \cup { <<Wire(KCP_CMD_WINS, 0, 0, 0, 0, 0, <<>>)>> }

DInput(d) ==
    /\ used.input < MaxPush
    /\ LET r == input(kcp["A"], d)
       IN Called("input", [k |-> r.k, err |-> r.err, out |-> <<>>], d)
    /\ used' = [used EXCEPT !.input = @ + 1]
    /\ UNCHANGED <<net, now, sent, delivered>>

\* Endpoint A alone, sending with fast resend after two skipping ACKs and
\* without congestion window, as the fast mode of the tests sets it
DupNext ==
    \/ ATick
    \/ \E len \in MsgLens : ASend(len)
    \/ AUpdate
    \/ \E d \in DupDatagram(kcp["A"]) : DInput(d)
    \/ ASetNodelay(TRUE, 10, 2, TRUE)

DupSpec == Init /\ [][DupNext]_vars

\* what a caller can see of the control block k: what recv returns, wait_snd,
\* rmt_wnd, conv, is_dead_link, and the segments other than ACKs that the next
\* flush writes
RECURSIVE Emitted(_)
Emitted(out) ==
    IF out = <<>> THEN <<>>
    ELSE SelectSeq(Head(out), LAMBDA w : w.cmd # KCP_CMD_ACK) \o Emitted(Tail(out))

Observed(k) ==
    [recv |-> [buflen \in BufLens |-> [err |-> recv(k, buflen).err,
                                        data |-> recv(k, buflen).data]],
     wait_snd |-> wait_snd(k), rmt_wnd |-> k.rmt_wnd, conv |-> k.conv,
     is_dead_link |-> is_dead_link(k), flush |-> Emitted(flush(k).out)]

\* the control block k without its pending ACKs, its round-trip estimate and
\* the fastack counters of the segments in flight
Settled(k) ==
    [k EXCEPT !.acklist = <<>>, !.rx_srtt = 0, !.rx_rttval = 0, !.rx_rto = 0,
              !.snd_buf = [i \in 1..Len(k.snd_buf) |-> [k.snd_buf[i] EXCEPT !.fastack = 0]]]

\* ------------------------------------------------------------ one endpoint, sending

\* the lengths of the buffers given to send by a caller of a control block
\* with that mss: empty, one byte, one segment, one byte more, the most the
\* fragment count allows, one byte more, and WND_RCV segments
SendLens(mss) ==
    {0, 1, mss, mss + 1, (KCP_WND_RCV - 1) * mss, (KCP_WND_RCV - 1) * mss + 1, KCP_WND_RCV * mss}

\* send with a new buffer of len bytes; the call's buffer and its result are kept
SSend(len) ==
    /\ Len(sent["A"]) < MaxMsgs
    /\ LET buf == Buffer(Len(sent["A"]) + 1, len)
           r == send(kcp["A"], buf)
       IN /\ kcp' = [kcp EXCEPT !["A"] = r.k]
          /\ last' = [op |-> "send", err |-> r.err, out |-> <<>>, arg |-> buf, n |-> r.n]
          /\ sent' = IF r.err = "Ok" THEN [sent EXCEPT !["A"] = Append(@, buf)] ELSE sent
    /\ UNCHANGED <<net, now, delivered, used>>

\* Endpoint A alone, given buffers of every length of interest, with the
\* default mtu and with the smallest
SendNext ==
    \/ \E len \in SendLens(kcp["A"].mss) : SSend(len)
    \/ ASetMtu(50)

SendSpec == Init /\ [][SendNext]_vars

\* ------------------------------------------------------------ one endpoint, calls that fail

\* another conv than the one the endpoint was created with, and a third one
OtherConvs == {Conv + 1, Conv + 2}

\* the lengths of the buffers given to recv: none at all, and a large one
RecvLens == {0} \cup BufLens

\* the datagrams of interest to a control block in state k: the next PUSH,
\* as a whole message and as the first of two fragments, under the
\* endpoint's conv and under others, and two segments under two other convs
ErrDatagram(k) ==
    { <<[Wire(KCP_CMD_PUSH, frg, KCP_WND_RCV, 0, k.rcv_nxt, 0, Forged) EXCEPT !.conv = c]>> :
        frg \in {0, 1}, c \in {Conv} \cup OtherConvs }
    \cup { <<[Wire(KCP_CMD_PUSH, 0, KCP_WND_RCV, 0, k.rcv_nxt, 0, Forged) EXCEPT !.conv = Conv + 1],
             [Wire(KCP_CMD_PUSH, 0, KCP_WND_RCV, 0, k.rcv_nxt + 1, 0, Forged)
                EXCEPT !.conv = Conv + 2]>> }

\* input of datagram d; the values of its error are kept
EInput(d) ==
    /\ used.input < MaxPush
    /\ LET r == input(kcp["A"], d)
       IN /\ kcp' = [kcp EXCEPT !["A"] = r.k]
          /\ last' = [op |-> "input", err |-> r.err, out |-> <<>>, arg |-> d, info |-> r.info]
    /\ used' = [used EXCEPT !.input = @ + 1]
    /\ UNCHANGED <<net, now, sent, delivered>>

\* recv into a buffer of buflen bytes; the length is kept
ERecv(buflen) ==
    /\ LET r == recv(kcp["A"], buflen)
       IN /\ kcp' = [kcp EXCEPT !["A"] = r.k]
          /\ last' = [op |-> "recv", err |-> r.err, out |-> <<>>, arg |-> buflen]
          /\ delivered' = IF r.err = "Ok"
                          THEN [delivered EXCEPT !["A"] = Append(@, r.data)]
                          ELSE delivered
    /\ UNCHANGED <<net, now, sent, used>>

\* the caller arms the adoption of the peer's conv
AInputConv ==
    /\ used.tune < MaxTune
    /\ Called("input_conv", [k |-> input_conv(kcp["A"]), err |-> "Ok", out |-> <<>>], <<>>)
    /\ used' = [used EXCEPT !.tune = @ + 1]
    /\ UNCHANGED <<net, now, sent, delivered>>

\* Endpoint A alone, receiving under its own conv and under others, with recv,
\* flush and flush_ack called before and after the first update
ErrNext ==
    \/ ATick
    \/ \E d \in ErrDatagram(kcp["A"]) : EInput(d)
    \/ \E buflen \in RecvLens : ERecv(buflen)
    \/ AInputConv
    \/ AUpdate
    \/ AFlush
    \/ AFlushAck

ErrSpec == Init /\ [][ErrNext]_vars

\* ------------------------------------------------------------ one endpoint, no peer answering

\* how often the caller's clock advances while nothing is acknowledged
DeadTicks == 3

DTick ==
    /\ now < DeadTicks * TickMs
    /\ now' = now + TickMs
    /\ UNCHANGED <<kcp, net, sent, delivered, last, used>>

\* Endpoint A alone, its link held to be dead after two transmissions of a
\* segment, retransmitting to a peer that may acknowledge or not
DeadNext ==
    \/ DTick
    \/ \E len \in MsgLens : ASend(len)
    \/ \E buflen \in BufLens : ARecv(buflen)
    \/ AUpdate
    \/ AFlush
    \/ \E d \in DupDatagram(kcp["A"]) : DInput(d)
    \/ ASetMaximumResendTimes(2)

DeadSpec == Init /\ [][DeadNext]_vars

\* the control block k with its link held to be alive
Live(k) == [k EXCEPT !.state = 0]

\* the result r of a call, whatever it left in state
AsLive(r) == [r EXCEPT !.k = Live(@)]

\* the writes out hold a PUSH segment that k keeps in snd_buf with a transmit
\* count of dead_link or more
DeadSent(k, out) ==
    \E i \in 1..Len(k.snd_buf) :
        /\ k.snd_buf[i].xmit >= k.dead_link
        /\ \E w \in 1..Len(out) : \E j \in 1..Len(out[w]) :
              out[w][j].cmd = KCP_CMD_PUSH /\ out[w][j].sn = k.snd_buf[i].sn

\* ------------------------------------------------------------ one endpoint, the peer's window closing

\* how often the caller's clock advances by half the first probe wait, and,
\* after that, by the longest probe wait
ProbeTicks == 6
ProbeLeaps == 9

\* the writes out hold a WASK segment
HasWask(out) ==
    \E w \in 1..Len(out) : \E j \in 1..Len(out[w]) : out[w][j].cmd = KCP_CMD_WASK

\* the window announcements of a peer: closed and open
WinsDatagram == { <<Wire(KCP_CMD_WINS, 0, wnd, 0, 0, 0, <<>>)>> : wnd \in {0, KCP_WND_RCV} }

\* The caller's log of the probing, kept in last next to the call's name and
\* result: flushed, whether the call ran flush; zero, whether the latest flush
\* saw rmt_wnd = 0; since, the time of the first flush of those that saw it or
\* of the latest one that wrote a WASK; wait, the probe wait counted from
\* then; asked, how many WASK segments were written so far.
\* The log after a flush at time current that saw rmt_wnd and wrote out:
Logged(g, current, rmt_wnd, out) ==
    IF rmt_wnd # 0
    THEN [g EXCEPT !.flushed = TRUE, !.zero = FALSE, !.since = 0, !.wait = 0]
    ELSE IF ~g.zero
    THEN [g EXCEPT !.flushed = TRUE, !.zero = TRUE, !.since = current,
                   !.wait = KCP_PROBE_INIT]
    ELSE IF HasWask(out)
    THEN [g EXCEPT !.flushed = TRUE, !.since = current,
                   !.wait = Min(@ + @ \div 2, KCP_PROBE_LIMIT), !.asked = @ + 1]
    ELSE [g EXCEPT !.flushed = TRUE]

\* a call on endpoint A that returned r; flushed tells whether it ran flush
Probed(op, r, arg, flushed) ==
    /\ kcp' = [kcp EXCEPT !["A"] = r.k]
    /\ LET g == [last EXCEPT !.op = op, !.err = r.err, !.out = r.out, !.arg = arg,
                             !.flushed = FALSE]
       IN last' = IF flushed THEN Logged(g, r.k.current, kcp["A"].rmt_wnd, r.out) ELSE g

ProbeInit ==
    /\ kcp = [e \in Ends |-> construct(Conv, FALSE)]
    /\ net = {}
    /\ now = 0
    /\ sent = [e \in Ends |-> <<>>]
    /\ delivered = [e \in Ends |-> <<>>]
    /\ last = [op |-> "new", err |-> "Ok", out |-> <<>>, arg |-> <<>>, flushed |-> FALSE,
               zero |-> FALSE, since |-> 0, wait |-> 0, asked |-> 0]
    /\ used = [dup |-> 0, input |-> 0, tune |-> 0, drop |-> 0]

PTick ==
    /\ now < ProbeTicks * (KCP_PROBE_INIT \div 2)
    /\ now' = now + KCP_PROBE_INIT \div 2
    /\ UNCHANGED <<kcp, net, sent, delivered, last, used>>

PLeap ==
    /\ now >= ProbeTicks * (KCP_PROBE_INIT \div 2)
    /\ now < ProbeTicks * (KCP_PROBE_INIT \div 2) + ProbeLeaps * KCP_PROBE_LIMIT
    /\ now' = now + KCP_PROBE_LIMIT
    /\ UNCHANGED <<kcp, net, sent, delivered, last, used>>

PSend ==
    /\ Len(sent["A"]) < MaxMsgs
    /\ LET buf == Buffer(Len(sent["A"]) + 1, 1)
           r == send(kcp["A"], buf)
       IN /\ Probed("send", [k |-> r.k, err |-> r.err, out |-> <<>>], <<>>, FALSE)
          /\ sent' = IF r.err = "Ok" THEN [sent EXCEPT !["A"] = Append(@, buf)] ELSE sent
    /\ UNCHANGED <<net, now, delivered, used>>

PUpdate ==
    /\ Probed("update", update(kcp["A"], now), <<>>, UpdateClock(kcp["A"], now).flush)
    /\ UNCHANGED <<net, now, sent, delivered, used>>

PFlush ==
    /\ Probed("flush", flush(kcp["A"]), <<>>, kcp["A"].updated)
    /\ UNCHANGED <<net, now, sent, delivered, used>>

PInput(d) ==
    /\ LET r == input(kcp["A"], d)
       IN Probed("input", [k |-> r.k, err |-> r.err, out |-> <<>>], d, FALSE)
    /\ UNCHANGED <<net, now, sent, delivered, used>>

\* Endpoint A alone, with data to send, its peer announcing a closed window
\* and an open one
ProbeNext ==
    \/ PTick
    \/ PLeap
    \/ PSend
    \/ PUpdate
    \/ PFlush
    \/ \E d \in WinsDatagram : PInput(d)

ProbeSpec == ProbeInit /\ [][ProbeNext]_vars

\* ------------------------------------------------------------ one endpoint, any clock

\* how often the caller's clock is set
TimeMoves == 3

\* where the caller's clock is set to, in ms after ts_flush: more than
\* 10000 ms before it, 10000 ms before it, a longest interval before it, just
\* before it, at it, just less than 10000 ms after it, 10000 ms after it
Offsets == {-10001, -10000, -5000, -1, 0, 9999, 10000}

TimeInit ==
    /\ kcp = [e \in Ends |-> construct(Conv, FALSE)]
    /\ net = {}
    /\ now = 0
    /\ sent = [e \in Ends |-> <<>>]
    /\ delivered = [e \in Ends |-> <<>>]
    /\ last = [op |-> "new", err |-> "Ok", out |-> <<>>, arg |-> <<>>]
    /\ used = [dup |-> 0, input |-> 0, tune |-> 0, drop |-> 0, clock |-> 0]

\* the caller's clock is set, forward or backward
TClock(d) ==
    /\ used.clock < TimeMoves
    /\ kcp["A"].ts_flush + d >= 0
    /\ now' = kcp["A"].ts_flush + d
    /\ used' = [used EXCEPT !.clock = @ + 1]
    /\ UNCHANGED <<kcp, net, sent, delivered, last>>

\* update with the caller's clock; kept are the time given, whether this was
\* the first update, how far the time was from ts_flush, and whether flush
\* was called
TUpdate ==
    /\ LET k == kcp["A"]
           r == update(k, now)
       IN /\ kcp' = [kcp EXCEPT !["A"] = r.k]
          /\ last' = [op |-> "update", err |-> r.err, out |-> r.out, arg |-> now,
                      first |-> ~k.updated, slap |-> timediff(now, k.ts_flush),
                      flushed |-> UpdateClock(k, now).flush]
    /\ UNCHANGED <<net, now, sent, delivered, used>>

\* check with the caller's clock; kept are the time given and the result
TCheck ==
    /\ last' = [op |-> "check", err |-> "Ok", out |-> <<>>, arg |-> now,
                n |-> check(kcp["A"], now)]
    /\ UNCHANGED <<kcp, net, now, sent, delivered, used>>

\* Endpoint A alone, with data in flight or not, its caller's clock anywhere
\* around ts_flush, with the default interval and with the longest
TimeNext ==
    \/ \E d \in Offsets : TClock(d)
    \/ ASend(1)
    \/ TUpdate
    \/ TCheck
    \/ ASetInterval(5000)

TimeSpec == TimeInit /\ [][TimeNext]_vars

\* the smallest wait until a segment of buf is due at the time current
RECURSIVE Earliest(_, _)
Earliest(buf, current) ==
    IF Len(buf) = 1 THEN buf[1].resendts - current
    ELSE Min(buf[1].resendts - current, Earliest(Tail(buf), current))

\* ------------------------------------------------------------ one endpoint, sequence numbers wrapping

\* the first sequence number of the run: 0xFFFFFFFE
WrapStart == -2

\* The control block of a connection that has sent 2^32 - 2 segments and had
\* them all acknowledged; of that history only the sequence numbers are kept.
\* used.checks tells whether the build checks arithmetic for overflow (a
\* debug build) or wraps (a release build).
WrapInit ==
    /\ kcp = [e \in Ends |-> [construct(Conv, FALSE) EXCEPT !.snd_una = WrapStart,
                                                             !.snd_nxt = WrapStart]]
    /\ net = {}
    /\ now = 0
    /\ sent = [e \in Ends |-> <<>>]
    /\ delivered = [e \in Ends |-> <<>>]
    /\ last = [op |-> "new", err |-> "Ok", out |-> <<>>, arg |-> <<>>,
               snd_una |-> WrapStart, snd_nxt |-> WrapStart, before |-> {}]
    /\ \E checks \in BOOLEAN :
          used = [dup |-> 0, input |-> 0, tune |-> 0, drop |-> 0, checks |-> checks]

\* a flush of k evaluates self.snd_una + cwnd as u32 to 2^32 or more: the
\* sum wraps, or panics in a build that checks
FlushOverflows(k) == k.updated /\ k.snd_una < 0 /\ k.snd_una + FlushWnd(k) >= 0

\* the sequence numbers of the segments of buf
SnOf(buf) == {buf[i].sn : i \in 1..Len(buf)}

\* a call on endpoint A that returned r, or that panicked; kept are snd_una,
\* snd_nxt and the sequence numbers in flight before the call
Wrapped(op, r, arg, panic) ==
    /\ last.err # "panic"
    /\ kcp' = IF panic THEN kcp ELSE [kcp EXCEPT !["A"] = r.k]
    /\ last' = [op |-> op, err |-> IF panic THEN "panic" ELSE r.err,
                out |-> IF panic THEN <<>> ELSE r.out, arg |-> arg,
                snd_una |-> kcp["A"].snd_una, snd_nxt |-> kcp["A"].snd_nxt,
                before |-> SnOf(kcp["A"].snd_buf)]

WSend ==
    /\ Len(sent["A"]) < MaxMsgs
    /\ LET buf == Buffer(Len(sent["A"]) + 1, KCP_MTU_DEF)
           r == send(kcp["A"], buf)
       IN /\ Wrapped("send", [k |-> r.k, err |-> r.err, out |-> <<>>], <<>>, FALSE)
          /\ sent' = IF r.err = "Ok" THEN [sent EXCEPT !["A"] = Append(@, buf)] ELSE sent
    /\ UNCHANGED <<net, now, delivered, used>>

WUpdate ==
    /\ Wrapped("update", update(kcp["A"], now), <<>>,
               used.checks /\ UpdateClock(kcp["A"], now).flush
                           /\ FlushOverflows(UpdateClock(kcp["A"], now).k))
    /\ UNCHANGED <<net, now, sent, delivered, used>>

WFlush ==
    /\ Wrapped("flush", flush(kcp["A"]), <<>>, used.checks /\ FlushOverflows(kcp["A"]))
    /\ UNCHANGED <<net, now, sent, delivered, used>>

\* the ACKs a peer may send to a control block in state k: of the first and
\* of the second segment in flight, with una at the first
AckDatagram(k) ==
    { <<Wire(KCP_CMD_ACK, 0, KCP_WND_RCV, 0, sn, k.snd_una, <<>>)>> :
        sn \in {k.snd_una, k.snd_una + 1} }

WInput(d) ==
    /\ used.input < MaxPush
    /\ LET r == input(kcp["A"], d)
       IN Wrapped("input", [k |-> r.k, err |-> r.err, out |-> <<>>], d, FALSE)
    /\ used' = [used EXCEPT !.input = @ + 1]
    /\ UNCHANGED <<net, now, sent, delivered>>

\* Endpoint A alone, sending across the wrap of its sequence numbers, its
\* peer acknowledging in order or out of order
WrapNext ==
    \/ ATick
    \/ WSend
    \/ WUpdate
    \/ WFlush
    \/ \E d \in AckDatagram(kcp["A"]) : WInput(d)

WrapSpec == WrapInit /\ [][WrapNext]_vars

\* ------------------------------------------------------------ one endpoint, malformed segments

\* a command byte that is none of PUSH, ACK, WASK, WINS
BadCmd == 99

\* the datagrams that end in a malformed segment, for a control block in state
\* k: the segment has an unknown command or announces more payload than there
\* is, under the endpoint's conv or under another, and comes first or after
\* the next PUSH under the endpoint's conv
BadDatagram(k) ==
    LET good == Wire(KCP_CMD_PUSH, 0, KCP_WND_RCV, 0, k.rcv_nxt, 0, Forged)
        bad == { [Wire(BadCmd, 0, 0, 0, 0, 0, <<>>) EXCEPT !.conv = c] :
                    c \in {Conv} \cup OtherConvs }
               \cup { [Wire(KCP_CMD_PUSH, 0, 0, 0, k.rcv_nxt + 1, 0, Forged)
                         EXCEPT !.conv = c, !.len = 2] : c \in {Conv} \cup OtherConvs }
    IN { <<b>> : b \in bad } \cup { <<good, b>> : b \in bad }

\* Endpoint A alone, armed to adopt a conv or not, given datagrams that end in
\* a malformed segment
BadNext ==
    \/ \E d \in BadDatagram(kcp["A"]) : EInput(d)
    \/ AInputConv
    \/ AUpdate
    \/ AFlushAck

BadSpec == Init /\ [][BadNext]_vars

\* ------------------------------------------------------------ one endpoint, acknowledged out of order

\* how long the caller goes on, in initial retransmission timeouts
FastTicks == 3

\* the time at which the next segment of buf is due after the time t (t when
\* there is none)
RECURSIVE NextDue(_, _)
NextDue(buf, t) ==
    IF buf = <<>> THEN t
    ELSE LET rest == NextDue(Tail(buf), t)
             due == Head(buf).resendts
         IN IF due > t /\ (rest = t \/ due < rest) THEN due ELSE rest

\* the caller sleeps until the next retransmission is due
FSleep ==
    /\ now < FastTicks * TickMs
    /\ NextDue(kcp["A"].snd_buf, now) > now
    /\ now' = NextDue(kcp["A"].snd_buf, now)
    /\ UNCHANGED <<kcp, net, sent, delivered, last, used>>

\* the ACK datagrams a peer may send to a control block in state k at time
\* t: one ACK of the first, second or third segment in flight, or two ACKs of
\* the second and the third in either order, each echoing the time 0 or t;
\* or a window announcement; or an ACK of the first segment that announces a
\* window of one segment, or that a segment of an unknown kind follows
FastDatagram(k, t) ==
    LET ack(i, ts) == Wire(KCP_CMD_ACK, 0, KCP_WND_RCV, ts, k.snd_una + i, k.snd_una, <<>>)
        sent_(i) == timediff(k.snd_una + i, k.snd_nxt) < 0
    IN { <<Wire(KCP_CMD_WINS, 0, KCP_WND_RCV, 0, 0, k.snd_una, <<>>)>> }
       \cup { <<[ack(0, t) EXCEPT !.wnd = 1]>> : i \in {i \in {0} : sent_(i)} }
       \cup { <<ack(0, t), Wire(BadCmd, 0, KCP_WND_RCV, 0, 0, k.snd_una, <<>>)>> :
                i \in {i \in {0} : sent_(i)} }
       \cup { <<ack(i, ts)>> : i \in {i \in 0..2 : sent_(i)}, ts \in {0, t} }
       \cup { <<ack(i, ts1), ack(3 - i, ts2)>> :
                i \in {i \in 1..2 : sent_(2)}, ts1 \in {0, t}, ts2 \in {0, t} }

FInput(d) ==
    /\ used.input < MaxPush
    /\ LET r == input(kcp["A"], d)
       IN Called("input", [k |-> r.k, err |-> r.err, out |-> <<>>], d)
    /\ used' = [used EXCEPT !.input = @ + 1]
    /\ UNCHANGED <<net, now, sent, delivered>>

\* Endpoint A alone, sending with or without fast resend and congestion
\* window, its peer acknowledging out of order, its caller calling update
\* when a retransmission is due
FastNext ==
    \/ FSleep
    \/ \E len \in MsgLens : ASend(len)
    \/ AUpdate
    \/ \E d \in FastDatagram(kcp["A"], now) : FInput(d)
    \/ \E resend \in {0, 1} : ASetNodelay(TRUE, KCP_INTERVAL, resend, TRUE)

FastSpec == Init /\ [][FastNext]_vars

\* the fastack counter of the segment of buf with the sequence number sn
FastackOf(buf, sn) == buf[CHOOSE i \in 1..Len(buf) : buf[i].sn = sn].fastack

\* ------------------------------------------------------------ one endpoint, retransmitting one segment many times

\* how long the caller goes on, in initial retransmission timeouts
LimitTicks == 14

LSleep ==
    /\ now < LimitTicks * TickMs
    /\ NextDue(kcp["A"].snd_buf, now) > now
    /\ now' = NextDue(kcp["A"].snd_buf, now)
    /\ UNCHANGED <<kcp, net, sent, delivered, last, used>>

\* the peer acknowledges the second segment in flight, again and again
LimitDatagram(k, t) ==
    IF timediff(k.snd_una + 1, k.snd_nxt) < 0
    THEN { <<Wire(KCP_CMD_ACK, 0, KCP_WND_RCV, t, k.snd_una + 1, k.snd_una, <<>>)>> }
    ELSE {}

\* Endpoint A alone, its first segment never acknowledged: the caller sleeps
\* until it is due and calls update, the peer acknowledges the segment after it
LimitNext ==
    \/ LSleep
    \/ ASend(1)
    \/ AUpdate
    \/ \E d \in LimitDatagram(kcp["A"], now) : FInput(d)
    \/ \E resend \in 0..2 : ASetNodelay(TRUE, KCP_INTERVAL, resend, TRUE)

LimitSpec == Init /\ [][LimitNext]_vars

\* whether the segment with the sequence number sn is among the writes out
Written(out, sn) ==
    \E i \in 1..Len(out) : \E j \in 1..Len(out[i]) :
        out[i][j].cmd = KCP_CMD_PUSH /\ out[i][j].sn = sn

\* whether cwnd and incr of k2, the control block after an input call on k,
\* are those the growth rule gives: grown when snd_una advanced and cwnd was
\* below the rmt_wnd the call left, as they were otherwise
Grown(k, k2) ==
    LET mss == k.mss
        incr0 == Max(k.incr, mss)
        incr1 == incr0 + (mss * mss) \div incr0 + mss \div 16
        cwnd1 == IF (k.cwnd + 1) * mss <= incr1 THEN (incr1 + mss - 1) \div mss ELSE k.cwnd
    IN /\ k2.cwnd >= k.cwnd
       /\ IF timediff(k2.snd_una, k.snd_una) > 0 /\ k.cwnd < k2.rmt_wnd
          THEN /\ k2.cwnd <= k2.rmt_wnd
               /\ IF k.cwnd < k.ssthresh
                  THEN k2.cwnd = k.cwnd + 1 /\ k2.incr = k.incr + mss
                  ELSE /\ k2.cwnd = Min(cwnd1, k2.rmt_wnd)
                       /\ k2.incr = IF cwnd1 > k2.rmt_wnd THEN k2.rmt_wnd * mss ELSE incr1
          ELSE k2.cwnd = k.cwnd /\ k2.incr = k.incr

\* the segments of the writes out, in the order they reached the sink
RECURSIVE Flat(_)
Flat(out) == IF out = <<>> THEN <<>> ELSE Head(out) \o Flat(Tail(out))

\* the place of a segment kind in the order flush emits them
Rank(cmd) ==
    IF cmd = KCP_CMD_ACK THEN 0 ELSE IF cmd = KCP_CMD_WASK THEN 1
    ELSE IF cmd = KCP_CMD_WINS THEN 2 ELSE 3

\* ------------------------------------------------------------ two endpoints, stream mode

\* the lengths of the buffers given to send in stream mode: one byte, more
\* than one segment, and more than the 127 segments one call may create
StreamLens == {1, KCP_MTU_DEF, KCP_WND_RCV * KCP_MTU_DEF}

\* both endpoints are built with new_stream; send counts the send calls
StreamInit ==
    /\ kcp = [e \in Ends |-> construct(Conv, TRUE)]
    /\ net = {}
    /\ now = 0
    /\ sent = [e \in Ends |-> <<>>]
    /\ delivered = [e \in Ends |-> <<>>]
    /\ last = [op |-> "new", err |-> "Ok", out |-> <<>>, arg |-> <<>>]
    /\ used = [dup |-> 0, input |-> 0, tune |-> 0, drop |-> 0, send |-> 0]

\* A calls send with a new buffer of len bytes
StreamSend(len) ==
    /\ used.send < MaxMsgs
    /\ LET buf == Buffer(used.send + 1, len)
           r == send(kcp["A"], buf)
       IN /\ kcp' = [kcp EXCEPT !["A"] = r.k]
          /\ sent' = IF r.err = "Ok" THEN [sent EXCEPT !["A"] = Append(@, buf)] ELSE sent
          /\ last' = [op |-> "send", err |-> r.err, out |-> <<>>, arg |-> buf]
    /\ used' = [used EXCEPT !.send = @ + 1]
    /\ UNCHANGED <<net, now, delivered>>

\* Two endpoints in stream mode, A sending to B
StreamNext ==
    \/ Tick
    \/ \E len \in StreamLens : StreamSend(len)
    \/ \E buflen \in BufLens : Recv("B", buflen)
    \/ \E e \in Ends : Update(e)
    \/ \E d \in net : Deliver(d)

StreamSpec == StreamInit /\ [][StreamNext]_vars

\* the bytes of the buffers bufs, one after the other
RECURSIVE Stream(_)
Stream(bufs) ==
    IF bufs = <<>> THEN <<>>
    ELSE Concat(Stream(SubSeq(bufs, 1, Len(bufs) - 1)), bufs[Len(bufs)])

\* ------------------------------------------------------------ one endpoint, what was acknowledged

\* the sequence numbers of the segments of buf
Sns(buf) == {buf[i].sn : i \in 1..Len(buf)}

\* acked is the set of the sequence numbers input has removed from snd_buf
AckInit ==
    /\ kcp = [e \in Ends |-> construct(Conv, FALSE)]
    /\ net = {}
    /\ now = 0
    /\ sent = [e \in Ends |-> <<>>]
    /\ delivered = [e \in Ends |-> <<>>]
    /\ last = [op |-> "new", err |-> "Ok", out |-> <<>>, arg |-> <<>>]
    /\ used = [dup |-> 0, input |-> 0, tune |-> 0, drop |-> 0, acked |-> {}]

\* input of datagram d; what it removes from snd_buf is kept
AckInput(d) ==
    /\ used.input < MaxPush
    /\ LET r == input(kcp["A"], d)
       IN /\ Called("input", [k |-> r.k, err |-> r.err, out |-> <<>>], d)
          /\ used' = [used EXCEPT !.input = @ + 1,
                                  !.acked = @ \cup (Sns(kcp["A"].snd_buf) \ Sns(r.k.snd_buf))]
    /\ UNCHANGED <<net, now, sent, delivered>>

\* Endpoint A alone, sending with or without congestion window, its caller
\* calling update when a retransmission is due, its peer acknowledging by sn
\* and by una, what is in flight and what is not
AckNext ==
    \/ FSleep
    \/ \E len \in MsgLens : ASend(len)
    \/ AUpdate
    \/ \E d \in {d \in Datagram(kcp["A"], now) : d[1].cmd = KCP_CMD_ACK} : AckInput(d)
    \/ \E nc \in BOOLEAN : ASetNodelay(TRUE, KCP_INTERVAL, 1, nc)

AckSpec == AckInit /\ [][AckNext]_vars

\* ------------------------------------------------------------ properties


\* C1: whatever the network delays, drops, duplicates or reorders, the buffers
\* B's recv calls have returned are, in order, the first of the buffers A's
\* send calls were given.
C1_InOrderDelivery ==
    /\ Len(delivered["B"]) <= Len(sent["A"])
    /\ \A i \in 1..Len(delivered["B"]) : delivered["B"][i] = sent["A"][i]

\* B has received all that A sent, a message of two fragments included, and
\* the network has delivered a datagram twice
C1_Delivered ==
    /\ Len(sent["A"]) = 2
    /\ delivered["B"] = sent["A"]
    /\ \E i \in 1..2 : DataLen(sent["A"][i]) = KCP_MTU_DEF
    /\ used.dup = 1

\* C2: in message mode, while the head of rcv_queue has frg > 0 and rcv_queue
\* holds fewer than frg + 1 segments, peeksize and recv return
\* ExpectingFragment and recv changes nothing; a recv call that returns data
\* removes the segments of rcv_queue up to and including the first with
\* frg = 0 and returns their payloads in order, which are the bytes of one
\* send call of the peer.
C2_WholeMessages ==
    /\ [](LET k == kcp["B"]
          IN (k.rcv_queue # <<>> /\ Head(k.rcv_queue).frg > 0
                /\ Len(k.rcv_queue) < Head(k.rcv_queue).frg + 1)
             => /\ peeksize(k).err = "ExpectingFragment"
                /\ \A buflen \in BufLens :
                     recv(k, buflen) = [k |-> k, err |-> "ExpectingFragment", data |-> <<>>])
    /\ [][delivered'["B"] # delivered["B"] =>
            LET q == kcp["B"].rcv_queue
                ends == {i \in 1..Len(q) : q[i].frg = 0 /\ \A j \in 1..(i - 1) : q[j].frg # 0}
                data == delivered'["B"][Len(delivered'["B"])]
            IN /\ ends # {}
               /\ \A n \in ends :
                    /\ data = Payloads(SubSeq(q, 1, n))
                    /\ SubSeq(kcp'["B"].rcv_queue, 1, Len(q) - n) = SubSeq(q, n + 1, Len(q))
               /\ \E m \in 1..Len(sent["A"]) : data = sent["A"][m]]_vars

\* B has received a message of two fragments
C2_Reassembled ==
    \E i \in 1..Len(delivered["B"]) :
        /\ delivered["B"][i] = sent["A"][i]
        /\ DataLen(delivered["B"][i]) > kcp["B"].mss

\* C3: when update and recv are called again and again and the network
\* delivers what it has not lost, B's recv returns every buffer A's send was
\* given, and A's wait_snd returns 0.
C3_EventualDelivery == []<>AllDone

\* the clock of the rounds stays below its cap
C3_ClockBelowCap == now < LiveTicks * TickMs

\* all of two messages has arrived and been acknowledged although the network
\* lost a datagram
C3_DeliveredDespiteLoss ==
    /\ Len(sent["A"]) = 2
    /\ AllDone
    /\ used.drop = 1

\* C4, as stated: in every reachable state the segments in flight are no more
\* than min(snd_wnd, rmt_wnd), and no more than cwnd unless nocwnd is set.
C4_WindowBoundAlways ==
    LET k == kcp["A"]
    IN /\ k.snd_nxt - k.snd_una <= Min(k.snd_wnd, k.rmt_wnd)
       /\ ~k.nocwnd => k.snd_nxt - k.snd_una <= k.cwnd

\* C4, amended: a call that moves segments from snd_queue to snd_buf leaves
\* snd_nxt - snd_una no more than min(snd_wnd, rmt_wnd), and no more than cwnd
\* unless nocwnd is set, with the snd_wnd, rmt_wnd and cwnd the call began with.
C4_WindowBoundAtPromotion ==
    [][LET k == kcp["A"]
           k2 == kcp'["A"]
       IN k2.snd_nxt > k.snd_nxt =>
            /\ k2.snd_nxt - k2.snd_una <= Min(k.snd_wnd, k.rmt_wnd)
            /\ ~k.nocwnd => k2.snd_nxt - k2.snd_una <= k.cwnd]_vars

\* a flush has filled the window: cwnd segments are in flight and more wait
C4_WindowFull ==
    LET k == kcp["A"]
    IN /\ last.op \in {"update", "flush"}
       /\ k.snd_nxt > 0
       /\ k.snd_nxt - k.snd_una = k.cwnd
       /\ k.snd_queue # <<>>

\* C5, as stated: every buffer written to the sink is no longer than the mtu
\* in force at the time of the write.
C5_WritesWithinMtu ==
    \A i \in 1..Len(last.out) : BufLen(last.out[i]) <= kcp["A"].mtu

\* C6: whatever una and sn the peer sends, snd_una <= snd_nxt, and snd_buf
\* holds segments with snd_una <= sn < snd_nxt, in the order of their sn.
C6_SendWindowOrdered ==
    LET k == kcp["A"]
    IN /\ k.snd_una <= k.snd_nxt
       /\ \A i \in 1..Len(k.snd_buf) :
            k.snd_una <= k.snd_buf[i].sn /\ k.snd_buf[i].sn < k.snd_nxt
       /\ \A i \in 1..(Len(k.snd_buf) - 1) : k.snd_buf[i].sn < k.snd_buf[i + 1].sn

\* an ACK whose una is beyond snd_nxt has been given to input while a segment
\* was in flight
C6_UnaBeyond ==
    LET k == kcp["A"]
    IN /\ last.op = "input"
       /\ last.arg[1].cmd = KCP_CMD_ACK
       /\ last.arg[1].una = k.snd_nxt + 1
       /\ k.snd_nxt > 0
       /\ k.snd_una = k.snd_nxt

\* C9: no call lowers rcv_nxt or snd_nxt; rcv_nxt rises by the number of
\* segments the call moves to rcv_queue and snd_nxt by the number it moves to
\* snd_buf.
C9_CountersMonotonic ==
    [][LET k == kcp["A"]
           k2 == kcp'["A"]
           popped == IF delivered'["A"] # delivered["A"] THEN MsgEnd(k.rcv_queue) ELSE 0
           queued == IF sent'["A"] # sent["A"]
                     THEN Len(k2.snd_queue) - Len(k.snd_queue) ELSE 0
       IN /\ k2.rcv_nxt >= k.rcv_nxt
          /\ k2.snd_nxt >= k.snd_nxt
          /\ k2.rcv_nxt - k.rcv_nxt = Len(k2.rcv_queue) - (Len(k.rcv_queue) - popped)
          /\ k2.snd_nxt - k.snd_nxt = (Len(k.snd_queue) + queued) - Len(k2.snd_queue)]_vars

\* two segments have moved to rcv_queue in one input call, and one to snd_buf
C9_Promoted ==
    LET k == kcp["A"]
    IN /\ last.op = "input"
       /\ Len(last.arg) = 2
       /\ k.rcv_nxt = 2
       /\ Len(k.rcv_queue) = 2
       /\ k.snd_nxt > 0

\* C10, as stated: after an input call that processes an ACK,
\* rx_minrto <= rx_rto <= 60000, whatever rx_minrto was set and whatever ts the
\* ACK carries.
C10_RtoWithinMinAndMax ==
    LET k == kcp["A"]
    IN (last.op = "input" /\ \E i \in 1..Len(last.arg) : last.arg[i].cmd = KCP_CMD_ACK)
       => k.rx_minrto <= k.rx_rto /\ k.rx_rto <= KCP_RTO_MAX

\* C10, amended: rx_rto <= 60000 always, and after an input call that
\* processes an ACK whose ts is not after the current time,
\* min(rx_minrto, 60000) <= rx_rto.
C10_RtoClamped ==
    LET k == kcp["A"]
    IN /\ k.rx_rto <= KCP_RTO_MAX
       /\ (last.op = "input"
             /\ \E i \in 1..Len(last.arg) :
                  /\ last.arg[i].cmd = KCP_CMD_ACK
                  /\ timediff(k.current, last.arg[i].ts) >= 0)
          => Min(k.rx_minrto, KCP_RTO_MAX) <= k.rx_rto

\* an ACK has been processed with rx_minrto set above 60000
C10_MinAboveMax ==
    LET k == kcp["A"]
    IN /\ last.op = "input"
       /\ last.arg[1].cmd = KCP_CMD_ACK
       /\ timediff(k.current, last.arg[1].ts) >= 0
       /\ k.rx_minrto > KCP_RTO_MAX
       /\ k.rx_rto = KCP_RTO_MAX

\* C7, as stated: rcv_buf holds no two segments with the same sn, is sorted by
\* sn, and every sn in it has rcv_nxt <= sn < rcv_nxt + rcv_wnd, set_wndsize
\* calls included.
C7_RcvBufInWindow ==
    LET k == kcp["A"]
    IN /\ \A i \in 1..(Len(k.rcv_buf) - 1) : k.rcv_buf[i].sn < k.rcv_buf[i + 1].sn
       /\ \A i \in 1..Len(k.rcv_buf) :
            k.rcv_nxt <= k.rcv_buf[i].sn /\ k.rcv_buf[i].sn < k.rcv_nxt + k.rcv_wnd

\* C7, amended: rcv_buf holds no two segments with the same sn, is sorted by
\* sn, and every sn in it has rcv_nxt <= sn; a segment that an input call
\* stores has sn < rcv_nxt + rcv_wnd when the call returns.
C7_RcvBufOrdered ==
    /\ [](LET k == kcp["A"]
          IN /\ \A i \in 1..(Len(k.rcv_buf) - 1) : k.rcv_buf[i].sn < k.rcv_buf[i + 1].sn
             /\ \A i \in 1..Len(k.rcv_buf) : k.rcv_nxt <= k.rcv_buf[i].sn)
    /\ [][LET k == kcp["A"]
              k2 == kcp'["A"]
          IN \A i \in 1..Len(k2.rcv_buf) :
               (\A j \in 1..Len(k.rcv_buf) : k.rcv_buf[j].sn # k2.rcv_buf[i].sn)
               => k2.rcv_buf[i].sn < k2.rcv_nxt + k2.rcv_wnd]_vars

\* a segment has been stored in rcv_buf in front of another one
C7_StoredInFront ==
    LET k == kcp["A"]
    IN /\ last.op = "input"
       /\ Len(k.rcv_buf) = 2
       /\ last.arg[1].sn = k.rcv_buf[1].sn

\* C8, as stated: after every input and every recv call, no segment of
\* rcv_buf has sn = rcv_nxt.
C8_NoNextInRcvBuf ==
    LET k == kcp["A"]
    IN last.op \in {"input", "recv"}
       => \A i \in 1..Len(k.rcv_buf) : k.rcv_buf[i].sn # k.rcv_nxt

\* C8, amended: after a recv call that returns data, and after an input call
\* that processes a PUSH segment with rcv_nxt <= sn < rcv_nxt + rcv_wnd
\* (rcv_nxt as the call found it), no segment of rcv_buf has sn = rcv_nxt
\* unless rcv_queue holds rcv_wnd segments or more.
C8_NextPromoted ==
    [][LET k == kcp["A"]
           k2 == kcp'["A"]
       IN (\/ delivered'["A"] # delivered["A"]
           \/ /\ used'.input # used.input
              /\ \E i \in 1..Len(last'.arg) :
                   /\ last'.arg[i].cmd = KCP_CMD_PUSH
                   /\ k.rcv_nxt <= last'.arg[i].sn
                   /\ last'.arg[i].sn < k.rcv_nxt + k.rcv_wnd)
          => \/ \A i \in 1..Len(k2.rcv_buf) : k2.rcv_buf[i].sn # k2.rcv_nxt
             \/ Len(k2.rcv_queue) >= k2.rcv_wnd]_vars

\* the segment that was missing has arrived, and the one waiting in rcv_buf
\* has moved to rcv_queue with it
C8_GapFilled ==
    LET k == kcp["A"]
    IN /\ last.op = "input"
       /\ used.input = 2
       /\ last.arg[1].sn = 0
       /\ k.rcv_nxt = 2
       /\ k.rcv_buf = <<>>

\* C11, as stated: a datagram given to input a second time right after the
\* first leaves what the caller can see as the first call left it: what recv
\* returns, wait_snd, rmt_wnd, conv, is_dead_link and the PUSH, WASK and WINS
\* segments of the next flush.
C11_DuplicateUnseen ==
    last.op = "input" => Observed(input(kcp["A"], last.arg).k) = Observed(kcp["A"])

\* C11, amended: a datagram with no PUSH segment at or beyond
\* rcv_nxt + rcv_wnd, given to input a second time right after the first,
\* leaves every field of the control block as the first call left it, except
\* the pending ACKs, rx_srtt, rx_rttval, rx_rto and the fastack counters of
\* the segments in snd_buf.
C11_DuplicateSettled ==
    [][LET k == kcp["A"]
           d == last'.arg
       IN (/\ used'.input # used.input
           /\ \A i \in 1..Len(d) :
                d[i].cmd = KCP_CMD_PUSH => timediff(d[i].sn, k.rcv_nxt + k.rcv_wnd) < 0)
          => Settled(input(kcp'["A"], d).k) = Settled(kcp'["A"])]_vars

\* an ACK has overtaken a segment in flight, whose fastack counter it raised,
\* and a PUSH waits in rcv_buf
C11_AckOvertook ==
    LET k == kcp["A"]
    IN /\ last.op = "input"
       /\ last.arg[1].cmd = KCP_CMD_ACK
       /\ k.snd_buf # <<>>
       /\ k.snd_buf[1].fastack = 1
       /\ k.rcv_buf # <<>>

\* C12: in message mode send of a buffer of len bytes, count being
\* max(1, ceil(len / mss)), returns UserBufTooBig and leaves snd_queue alone
\* when count >= 128; otherwise it returns len and appends count segments to
\* snd_queue, the i-th (from 0) with frg = count - 1 - i, those with frg > 0
\* holding mss bytes, and all of them together the bytes of the buffer.
C12_SendFragments ==
    [][(last'.op = "send" /\ (last' # last \/ sent' # sent)) =>
         LET k == kcp["A"]
             q == k.snd_queue
             q2 == kcp'["A"].snd_queue
             len == DataLen(last'.arg)
             count == Max(1, (len + k.mss - 1) \div k.mss)
         IN IF count >= 128
            THEN last'.err = "UserBufTooBig" /\ q2 = q
            ELSE /\ last'.err = "Ok"
                 /\ last'.n = len
                 /\ Len(q2) = Len(q) + count
                 /\ SubSeq(q2, 1, Len(q)) = q
                 /\ \A i \in 0..(count - 1) :
                      /\ q2[Len(q) + i + 1].frg = count - 1 - i
                      /\ i < count - 1 => DataLen(q2[Len(q) + i + 1].data) = k.mss
                 /\ Payloads(SubSeq(q2, Len(q) + 1, Len(q2))) = last'.arg]_vars

\* send has accepted (128 - 1) * mss bytes as 127 segments and then refused
\* 128 * mss bytes
C12_AtTheLimit ==
    LET k == kcp["A"]
    IN /\ last.op = "send"
       /\ last.err = "UserBufTooBig"
       /\ DataLen(last.arg) = KCP_WND_RCV * k.mss
       /\ Len(k.snd_queue) = KCP_WND_RCV - 1
       /\ DataLen(sent["A"][1]) = (KCP_WND_RCV - 1) * k.mss

\* C13: recv returns RecvQueueEmpty when rcv_queue is empty, ExpectingFragment
\* when the message at its head is incomplete and UserBufTooSmall when that
\* message is longer than the buffer; a recv that fails leaves the control
\* block as it was, so that recv with a large buffer returns afterwards what
\* it would have returned before.
C13_FailedRecvKeepsState ==
    [][(last'.op = "recv" /\ (last' # last \/ kcp' # kcp)) =>
         LET k == kcp["A"]
             q == k.rcv_queue
             incomplete == q # <<>> /\ Head(q).frg > 0 /\ Len(q) < Head(q).frg + 1
             size == DataLen(Payloads(SubSeq(q, 1, MsgEnd(q))))
         IN /\ last'.err = IF q = <<>> THEN "RecvQueueEmpty"
                           ELSE IF incomplete THEN "ExpectingFragment"
                           ELSE IF size > last'.arg THEN "UserBufTooSmall"
                           ELSE "Ok"
            /\ last'.err # "Ok" =>
                 /\ kcp'["A"] = k
                 /\ delivered' = delivered
                 /\ \A buflen \in BufLens : recv(kcp'["A"], buflen) = recv(k, buflen)]_vars

\* recv has found its buffer too small for the message at the head of
\* rcv_queue, which is still there
C13_TooSmall ==
    LET k == kcp["A"]
    IN /\ last.op = "recv"
       /\ last.err = "UserBufTooSmall"
       /\ k.rcv_queue # <<>>
       /\ \A buflen \in BufLens : recv(k, buflen).err = "Ok"

\* C14: while adoption is not armed, input of a segment under another conv
\* returns ConvInconsistent(the endpoint's conv, the segment's conv) and the
\* segment changes nothing; once input_conv has armed it, the first segment
\* under another conv sets conv, clears the flag and is processed as by an
\* endpoint of that conv, so that a segment under a third conv then fails.
C14_ConvChecked ==
    [][used'.input # used.input =>
         LET k == kcp["A"]
             k2 == kcp'["A"]
             d == last'.arg
             adopted == [k EXCEPT !.conv = d[1].conv, !.input_conv = FALSE]
         IN d[1].conv # k.conv =>
              IF ~waiting_conv(k)
              THEN /\ last'.err = "ConvInconsistent"
                   /\ last'.info = <<k.conv, d[1].conv>>
                   /\ k2 = k
              ELSE /\ k2.conv = d[1].conv
                   /\ ~waiting_conv(k2)
                   /\ k2 = input(adopted, d).k
                   /\ last'.err = input(adopted, d).err
                   /\ (Len(d) = 1 /\ d[1].frg = 0) =>
                        /\ last'.err = "Ok"
                        /\ k2.rcv_nxt = k.rcv_nxt + 1
                   /\ (Len(d) > 1 /\ d[2].conv # d[1].conv) =>
                        /\ last'.err = "ConvInconsistent"
                        /\ last'.info = <<d[1].conv, d[2].conv>>]_vars

\* an armed endpoint has adopted the conv of the first segment of a datagram
\* and refused the second segment, which came under a third conv
C14_AdoptedOnce ==
    LET k == kcp["A"]
    IN /\ last.op = "input"
       /\ Len(last.arg) = 2
       /\ last.err = "ConvInconsistent"
       /\ k.conv = last.arg[1].conv
       /\ k.conv # Conv
       /\ k.rcv_queue # <<>>

\* C15: before the first update, flush and flush_ack return NeedUpdate, write
\* nothing and change nothing; after it, flush, flush_ack and update never
\* return NeedUpdate, and no call undoes it.
C15_NeedUpdate ==
    /\ [](LET k == kcp["A"]
          IN /\ (last.op \in {"flush", "flush_ack"} /\ ~k.updated)
                  => last.err = "NeedUpdate" /\ last.out = <<>>
             /\ (last.op \in {"flush", "flush_ack", "update"} /\ k.updated)
                  => last.err = "Ok")
    /\ [][/\ (last'.op \in {"flush", "flush_ack"} /\ ~kcp["A"].updated) => kcp' = kcp
          /\ kcp["A"].updated => kcp'["A"].updated]_vars

\* flush_ack has been refused before the first update, with ACKs waiting
C15_RefusedWithAcks ==
    LET k == kcp["A"]
    IN /\ last.op = "flush_ack"
       /\ last.err = "NeedUpdate"
       /\ k.acklist # <<>>

\* C16: is_dead_link() turns true exactly in a flush (called directly or by
\* update) that writes a segment whose transmit count has reached dead_link,
\* it never turns false again, and send, recv, input, update and flush on a
\* control block marked dead return, write and leave what they would on the
\* same control block not marked.
C16_DeadLinkOnlyMarks ==
    /\ [](is_dead_link(kcp["A"]) =>
            LET k == kcp["A"]
            IN /\ \A len \in MsgLens :
                    AsLive(send(k, Buffer(MaxMsgs + 1, len)))
                        = AsLive(send(Live(k), Buffer(MaxMsgs + 1, len)))
               /\ \A buflen \in BufLens :
                    AsLive(recv(k, buflen)) = AsLive(recv(Live(k), buflen))
               /\ \A d \in DupDatagram(k) :
                    AsLive(input(k, d)) = AsLive(input(Live(k), d))
               /\ \A t \in {now, now + TickMs} :
                    /\ AsLive(update(k, t)) = AsLive(update(Live(k), t))
                    /\ is_dead_link(update(k, t).k)
                    /\ update(k, t).err = "Ok"
               /\ AsLive(flush(k)) = AsLive(flush(Live(k)))
               /\ is_dead_link(flush(k).k)
               /\ flush(k).err = "Ok")
    /\ [][ /\ is_dead_link(kcp["A"]) => is_dead_link(kcp'["A"])
           /\ (~is_dead_link(kcp["A"]) /\ is_dead_link(kcp'["A"]))
                 => /\ last'.op \in {"flush", "update"}
                    /\ DeadSent(kcp'["A"], last'.out)
           /\ (last'.op \in {"flush", "update"} /\ DeadSent(kcp'["A"], last'.out))
                 => is_dead_link(kcp'["A"]) ]_vars

\* the link was marked dead, and a later flush has transmitted the segment
\* once more
C16_ResentWhileDead ==
    /\ is_dead_link(kcp["A"])
    /\ last.op \in {"flush", "update"}
    /\ last.err = "Ok"
    /\ \E i \in 1..Len(kcp["A"].snd_buf) :
          /\ kcp["A"].snd_buf[i].xmit > kcp["A"].dead_link
          /\ \E w \in 1..Len(last.out) : \E j \in 1..Len(last.out[w]) :
                last.out[w][j].cmd = KCP_CMD_PUSH
                /\ last.out[w][j].sn = kcp["A"].snd_buf[i].sn

C18_CheckEitherDirection ==
    last.op = "check" =>
        LET k == kcp["A"]
            t == last.arg
        IN last.n = IF ~k.updated THEN 0
                    ELSE IF t - k.ts_flush >= 0 \/ t - k.ts_flush <= -10000 THEN 0
                    ELSE IF \E i \in 1..Len(k.snd_buf) : k.snd_buf[i].resendts <= t THEN 0
                    ELSE IF k.snd_buf = <<>> THEN Min(k.ts_flush - t, k.interval)
                    ELSE Min(Min(k.ts_flush - t, Earliest(k.snd_buf, t)), k.interval)

\* C18: check returns 0 before the first update, 0 when the time given has
\* reached ts_flush or is more than 10000 ms before it, 0 when a segment of
\* snd_buf is due, and otherwise the smallest of the wait for ts_flush, the
\* wait for the first segment due, and interval; never more than interval.
C18_CheckWait ==
    last.op = "check" =>
        LET k == kcp["A"]
            t == last.arg
        IN /\ last.n = IF ~k.updated THEN 0
                       ELSE IF t - k.ts_flush >= 0 \/ t - k.ts_flush < -10000 THEN 0
                       ELSE IF \E i \in 1..Len(k.snd_buf) : k.snd_buf[i].resendts <= t THEN 0
                       ELSE IF k.snd_buf = <<>> THEN Min(k.ts_flush - t, k.interval)
                       ELSE Min(Min(k.ts_flush - t, Earliest(k.snd_buf, t)), k.interval)
           /\ last.n >= 0
           /\ last.n <= k.interval

\* check was given a time exactly 10000 ms before ts_flush, with a segment in
\* flight that was not due, and returned interval
C18_TenSecondsBefore ==
    /\ last.op = "check"
    /\ kcp["A"].updated
    /\ last.arg - kcp["A"].ts_flush = -10000
    /\ kcp["A"].snd_buf # <<>>
    /\ last.n = kcp["A"].interval

\* C19 as stated: update calls flush exactly when it is the first update, or
\* the time given has reached ts_flush, or is 10000 ms or more away from it
\* in either direction.
C19_FlushEitherDirection ==
    last.op = "update" =>
        (last.flushed <=> (last.first \/ last.slap >= 0 \/ last.slap <= -10000))

\* C19: update calls flush exactly when it is the first update, or the time
\* given has reached ts_flush, or is more than 10000 ms before it; in every
\* other case it only sets current and writes nothing; after an update that
\* called flush, ts_flush is later than the time given, by interval at most.
C19_UpdateFlushes ==
    [][ (last'.op = "update" /\ now' = now /\ used' = used) =>
          LET k == kcp["A"]
              k2 == kcp'["A"]
              due == ~k.updated \/ now - k.ts_flush >= 0 \/ now - k.ts_flush < -10000
          IN /\ last'.flushed <=> due
             /\ ~due => /\ k2 = [k EXCEPT !.current = now]
                        /\ last'.out = <<>>
             /\ due => /\ k2.current = now
                       /\ k2.ts_flush > now
                       /\ k2.ts_flush <= now + k2.interval
             /\ last'.err = "Ok" ]_vars

\* update was given a time exactly 10000 ms before ts_flush and called no
\* flush, with a segment in snd_buf still to be sent for the first time
C19_TenSecondsBefore ==
    /\ last.op = "update"
    /\ ~last.first
    /\ last.slap = -10000
    /\ ~last.flushed
    /\ kcp["A"].current = last.arg
    /\ kcp["A"].snd_queue # <<>>

\* C20: after input of an ACK segment with snd_una <= sn < snd_nxt by
\* timediff, no segment of snd_buf has that sn, and every other segment that
\* was in snd_buf and is not below the ACK's una is still there, also when
\* the sequence numbers in flight lie on both sides of 0.
C20_AckAcrossWrap ==
    (last.op = "input" /\ last.err = "Ok") =>
        \A j \in 1..Len(last.arg) :
            LET w == last.arg[j]
            IN (w.cmd = KCP_CMD_ACK /\ timediff(w.sn, last.snd_una) >= 0
                                    /\ timediff(w.sn, last.snd_nxt) < 0)
                 => /\ w.sn \notin SnOf(kcp["A"].snd_buf)
                    /\ \A s \in last.before \ {w.sn} :
                          timediff(w.una, s) <= 0 => s \in SnOf(kcp["A"].snd_buf)

\* C21 as stated: input of one PUSH segment appends (sn, ts) to acklist
\* exactly when rcv_nxt <= sn < rcv_nxt + rcv_wnd, and a PUSH outside that
\* window changes neither acklist nor rcv_buf and rcv_queue.
C21_AckedInsideWindowOnly ==
    [][ (used'.input # used.input /\ last'.err = "Ok" /\ Len(last'.arg) = 1
                                  /\ last'.arg[1].cmd = KCP_CMD_PUSH) =>
          LET k == kcp["A"]
              k2 == kcp'["A"]
              w == last'.arg[1]
              inside == timediff(w.sn, k.rcv_nxt) >= 0
                        /\ timediff(w.sn, k.rcv_nxt + k.rcv_wnd) < 0
          IN /\ k2.acklist = IF inside THEN Append(k.acklist, <<w.sn, w.ts>>)
                             ELSE k.acklist
             /\ ~inside => /\ k2.rcv_buf = k.rcv_buf
                           /\ k2.rcv_queue = k.rcv_queue ]_vars

\* C21: input of one PUSH segment appends (sn, ts) to acklist exactly when sn
\* is before rcv_nxt + rcv_wnd, be it in the window, already in rcv_buf, or
\* before rcv_nxt; the segment is stored only when rcv_nxt <= sn: it is then
\* in rcv_buf once or has moved on to rcv_queue; a PUSH at or beyond
\* rcv_nxt + rcv_wnd changes neither acklist nor rcv_buf and rcv_queue.
C21_AckedBeforeWindowEnd ==
    [][ (used'.input # used.input /\ last'.err = "Ok" /\ Len(last'.arg) = 1
                                  /\ last'.arg[1].cmd = KCP_CMD_PUSH) =>
          LET k == kcp["A"]
              k2 == kcp'["A"]
              w == last'.arg[1]
              acked == timediff(w.sn, k.rcv_nxt + k.rcv_wnd) < 0
              inside == timediff(w.sn, k.rcv_nxt) >= 0 /\ acked
              held(buf) == Cardinality({i \in 1..Len(buf) : buf[i].sn = w.sn})
          IN /\ k2.acklist = IF acked THEN Append(k.acklist, <<w.sn, w.ts>>)
                             ELSE k.acklist
             /\ ~inside => /\ k2.rcv_buf = k.rcv_buf
                           /\ k2.rcv_queue = k.rcv_queue
                           /\ k2.rcv_nxt = k.rcv_nxt
             /\ inside => \/ held(k2.rcv_buf) = 1
                          \/ /\ held(k2.rcv_buf) = 0
                             /\ timediff(k2.rcv_nxt, w.sn) > 0
                             /\ Len(k2.rcv_queue) > Len(k.rcv_queue)
             /\ inside => Len(k2.rcv_buf) + Len(k2.rcv_queue)
                             = Len(k.rcv_buf) + Len(k.rcv_queue) + 1 - held(k.rcv_buf) ]_vars

\* a PUSH that arrived again after its data had moved on to rcv_queue was
\* acknowledged again
C21_AckedBelowWindow ==
    /\ last.op = "input"
    /\ Len(last.arg) = 1
    /\ last.arg[1].cmd = KCP_CMD_PUSH
    /\ timediff(last.arg[1].sn, kcp["A"].rcv_nxt) < 0
    /\ Len(kcp["A"].acklist) >= 2
    /\ kcp["A"].acklist[Len(kcp["A"].acklist)] = <<last.arg[1].sn, last.arg[1].ts>>
    /\ kcp["A"].acklist[Len(kcp["A"].acklist) - 1] = <<last.arg[1].sn, last.arg[1].ts>>

\* C22: when input fails on the last segment of its datagram, the control
\* block is left as input of the segments before it leaves it (and as it was
\* when there are none): the failing segment has changed no field.
C22_FailedSegmentLeavesNothing ==
    [][ (used'.input # used.input /\ last'.err # "Ok") =>
          LET k == kcp["A"]
              d == last'.arg
          IN kcp'["A"] = IF Len(d) = 1 THEN k
                         ELSE input(k, SubSeq(d, 1, Len(d) - 1)).k ]_vars

C24_FastRetransmitRule ==
    [][ (last'.op = "update" /\ used' = used /\ now' = now /\ UpdateClock(kcp["A"], now).flush) =>
          LET k == kcp["A"]
              k2 == kcp'["A"]
          IN \A n \in 1..Len(k.snd_buf) :
                LET seg == k.snd_buf[n]
                    seg2 == k2.snd_buf[n]
                    fast == /\ k.fastresend > 0
                            /\ seg.fastack >= k.fastresend
                            /\ (seg.xmit <= k.fastlimit \/ k.fastlimit <= 0)
                IN (seg.xmit > 0 /\ timediff(now, seg.resendts) < 0) =>
                      IF fast
                      THEN /\ seg2.fastack = 0
                           /\ seg2.xmit = seg.xmit + 1
                           /\ seg2.ts = now
                           /\ Written(last'.out, seg.sn)
                      ELSE /\ seg2 = seg
                           /\ ~Written(last'.out, seg.sn) ]_vars

\* C24 witness: update has just sent again a segment that was not due: no
\* timeout happened in that flush, which would have left cwnd at 1.
C24_SentAgainBeforeTimeout ==
    /\ last.op = "update" /\ last.out # <<>>
    /\ kcp["A"].fastresend > 0
    /\ \E n \in 1..Len(kcp["A"].snd_buf) :
          LET seg == kcp["A"].snd_buf[n]
          IN /\ seg.xmit >= 2 /\ seg.fastack = 0 /\ kcp["A"].cwnd >= 2
             /\ seg.ts = now /\ seg.resendts = now + seg.rto
             /\ Written(last.out, seg.sn)

\* C25: after a flush in which a segment was retransmitted by timeout, cwnd
\* is 1, incr is mss and ssthresh is max(cwnd_eff / 2, 2), cwnd_eff being the
\* window the flush promoted against, whether or not fast retransmissions
\* happened too; after a flush with fast retransmissions only, ssthresh is
\* max((snd_nxt - snd_una) / 2, 2) and cwnd is ssthresh + fastresend; after
\* every flush cwnd >= 1.
C25_CongestionReaction ==
    [][ (last'.op = "update" /\ used' = used /\ now' = now /\ UpdateClock(kcp["A"], now).flush) =>
          LET k == kcp["A"]
              k2 == kcp'["A"]
              due(seg) == seg.xmit > 0 /\ timediff(now, seg.resendts) >= 0
              fast(seg) == /\ seg.xmit > 0 /\ ~due(seg)
                           /\ k.fastresend > 0 /\ seg.fastack >= k.fastresend
                           /\ (seg.xmit <= k.fastlimit \/ k.fastlimit <= 0)
              lost == \E n \in 1..Len(k.snd_buf) : due(k.snd_buf[n])
              change == \E n \in 1..Len(k.snd_buf) : fast(k.snd_buf[n])
              cwnd_eff == IF k.nocwnd THEN Min(k.snd_wnd, k.rmt_wnd)
                          ELSE Min(k.cwnd, Min(k.snd_wnd, k.rmt_wnd))
          IN /\ last'.err = "Ok"
             /\ k2.cwnd >= 1
             /\ lost => /\ k2.cwnd = 1
                        /\ k2.incr = k2.mss
                        /\ k2.ssthresh = Max(cwnd_eff \div 2, 2)
             /\ (change /\ ~lost) =>
                        /\ k2.ssthresh = Max((k2.snd_nxt - k2.snd_una) \div 2, 2)
                        /\ k2.cwnd = k2.ssthresh + k2.fastresend
             /\ (~change /\ ~lost /\ k.cwnd >= 1) =>
                        /\ k2.cwnd = k.cwnd /\ k2.ssthresh = k.ssthresh /\ k2.incr = k.incr ]_vars

\* C25 witness: update has just sent a segment again before its timeout, and
\* no other by timeout: cwnd is ssthresh + fastresend, above 1.
C25_AfterFastRetransmitOnly ==
    /\ last.op = "update" /\ last.out # <<>>
    /\ kcp["A"].fastresend > 0
    /\ kcp["A"].cwnd = kcp["A"].ssthresh + kcp["A"].fastresend
    /\ kcp["A"].ssthresh = Max((kcp["A"].snd_nxt - kcp["A"].snd_una) \div 2, 2)
    /\ \E n \in 1..Len(kcp["A"].snd_buf) :
          LET seg == kcp["A"].snd_buf[n]
          IN /\ seg.xmit >= 2 /\ seg.fastack = 0 /\ seg.ts = now
             /\ Written(last.out, seg.sn)

\* C26: an input call during which snd_una advances, with cwnd below the
\* rmt_wnd the call leaves, grows the window: cwnd by one and incr by mss when
\* cwnd < ssthresh, by the rule of the incr accumulator otherwise, and never
\* beyond rmt_wnd; any other input call leaves cwnd and incr as they were; no
\* input call lowers cwnd.
C26_EveryAdvanceGrows ==
    [][ (used'.input # used.input) => Grown(kcp["A"], kcp'["A"]) ]_vars

\* C26 (as the code has it): the growth rule is that of the input calls that
\* return Ok; a call that returns an error leaves cwnd and incr as they were,
\* whatever its earlier segments acknowledged.
C26_SuccessfulAdvanceGrows ==
    [][ (used'.input # used.input) =>
          IF last'.err = "Ok" THEN Grown(kcp["A"], kcp'["A"])
          ELSE kcp'["A"].cwnd = kcp["A"].cwnd /\ kcp'["A"].incr = kcp["A"].incr ]_vars

\* C26 witness: the second input call that advanced snd_una found cwnd at
\* ssthresh and added to incr less than the segment that would grow cwnd.
C26_GrownByAccumulator ==
    /\ last.op = "input" /\ last.err = "Ok" /\ used.input = 2
    /\ kcp["A"].snd_una = 2
    /\ kcp["A"].cwnd = 2 /\ kcp["A"].ssthresh = 2
    /\ kcp["A"].incr = 2 * kcp["A"].mss + kcp["A"].mss \div 2 + kcp["A"].mss \div 16

\* C28: a flush_ack call that returns Ok has written every (sn, ts) pair of
\* acklist to the sink as an ACK segment and left acklist empty.
C28_FlushAckWrites ==
    [][ (last'.op = "flush_ack" /\ last'.err = "Ok" /\ kcp' # kcp) =>
          /\ kcp'["A"].acklist = <<>>
          /\ \A i \in 1..Len(kcp["A"].acklist) :
                \E w \in 1..Len(last'.out) : \E j \in 1..Len(last'.out[w]) :
                    /\ last'.out[w][j].cmd = KCP_CMD_ACK
                    /\ last'.out[w][j].sn = kcp["A"].acklist[i][1]
                    /\ last'.out[w][j].ts = kcp["A"].acklist[i][2] ]_vars

\* C27: the segments a successful flush writes to the sink are one ACK for
\* each entry of acklist, in its order and with its sn and ts, then at most
\* one WASK, then at most one WINS, then PUSH segments in ascending order of
\* sn; afterwards acklist is empty, the probe bits are 0 and the scratch
\* buffer is empty.
C27_EmissionOrder ==
    [][ (last'.op = "flush" /\ last'.err = "Ok" /\ (kcp' # kcp \/ last' # last)) =>
          LET k == kcp["A"]
              k2 == kcp'["A"]
              flat == Flat(last'.out)
              n == Len(k.acklist)
          IN /\ Len(flat) >= n
             /\ \A i \in 1..n : /\ flat[i].cmd = KCP_CMD_ACK
                                /\ flat[i].sn = k.acklist[i][1]
                                /\ flat[i].ts = k.acklist[i][2]
             /\ \A i \in (n + 1)..Len(flat) : flat[i].cmd # KCP_CMD_ACK
             /\ \A i \in 1..Len(flat) : \A j \in 1..Len(flat) :
                   i < j => /\ Rank(flat[i].cmd) <= Rank(flat[j].cmd)
                            /\ flat[i].cmd = flat[j].cmd =>
                                  /\ flat[i].cmd \in {KCP_CMD_ACK, KCP_CMD_PUSH}
                                  /\ flat[i].cmd = KCP_CMD_PUSH => timediff(flat[i].sn, flat[j].sn) < 0
             /\ k2.acklist = <<>> /\ k2.probe = 0 /\ k2.buf = <<>> ]_vars

\* C29: on endpoints built with new_stream every segment send creates has
\* frg 0 and at most mss bytes, send fills the last segment of snd_queue up
\* to mss before it creates segments, and the bytes B's recv calls have
\* returned, one after the other, are the first of the bytes of the buffers
\* A's successful send calls were given.
C29_StreamPrefix ==
    /\ [](LET k == kcp["A"]
              got == Stream(delivered["B"])
              put == Stream(sent["A"])
          IN /\ \A i \in 1..Len(k.snd_queue) :
                   k.snd_queue[i].frg = 0 /\ DataLen(k.snd_queue[i].data) <= k.mss
             /\ DataLen(got) <= DataLen(put)
             /\ got = TakeBytes(put, DataLen(got)))
    /\ [][used'.send # used.send =>
            LET q == kcp["A"].snd_queue
                q2 == kcp'["A"].snd_queue
                mss == kcp["A"].mss
            IN q # <<>> =>
                 /\ Len(q2) >= Len(q)
                 /\ DataLen(q2[Len(q)].data)
                      = Min(mss, DataLen(q[Len(q)].data) + DataLen(last'.arg))
                 /\ q2[Len(q)].data
                      = TakeBytes(Concat(q[Len(q)].data, last'.arg), DataLen(q2[Len(q)].data))]_vars

\* C30: when check(t) returns d > 0, then at every time t' of t <= t' < t + d
\* (each of the first 128 ms, every 128th after them, and the last) no segment
\* of snd_buf is due and update(t') calls no flush and writes nothing.
C30_SafeSleep ==
    LET k == kcp["A"]
        d == check(k, now)
    IN d > 0 =>
         \A i \in {i \in 0..(d - 1) : i < 128 \/ i % 128 = 0 \/ i = d - 1} :
            /\ \A n \in 1..Len(k.snd_buf) : timediff(k.snd_buf[n].resendts, now + i) > 0
            /\ ~UpdateClock(k, now + i).flush
            /\ update(k, now + i).out = <<>>
            /\ update(k, now + i).k = [k EXCEPT !.current = now + i]

\* C30 witness: check returned a wait shorter than interval and than the time
\* to the next flush: that until the segment in flight is due.
C30_SleepUntilDue ==
    /\ last.op = "check" /\ last.arg = now
    /\ kcp["A"].snd_buf # <<>>
    /\ last.n > 0 /\ last.n < kcp["A"].interval
    /\ last.n < kcp["A"].ts_flush - now
    /\ last.n = check(kcp["A"], now)

\* C31: once update has been called, whenever check(t) returns 0 the call
\* update(t) calls flush, and every segment of snd_buf whose resendts is at
\* or before t is sent again by that call.
C31_ZeroIsActedOn ==
    LET k == kcp["A"]
        r == update(k, now)
    IN (k.updated /\ check(k, now) = 0) =>
         /\ UpdateClock(k, now).flush
         /\ \A n \in 1..Len(k.snd_buf) :
               (k.snd_buf[n].xmit > 0 /\ timediff(k.snd_buf[n].resendts, now) <= 0) =>
                  /\ r.k.snd_buf[n].xmit = k.snd_buf[n].xmit + 1
                  /\ Written(r.out, k.snd_buf[n].sn)

\* C32: no flush writes a PUSH segment with a sequence number that input has
\* removed from snd_buf, by an ACK of it or by a una beyond it, and no such
\* number is in snd_buf again; a flush gives the segments it takes from the
\* head of snd_queue the numbers snd_nxt, snd_nxt + 1, ... in their order.
C32_AckedNeverSentAgain ==
    /\ [](Sns(kcp["A"].snd_buf) \cap used.acked = {})
    /\ [][ (last'.op = "update" /\ used' = used /\ now' = now) =>
            LET k == kcp["A"]
                k2 == kcp'["A"]
                flat == Flat(last'.out)
                c == Len(k2.snd_buf) - Len(k.snd_buf)
            IN /\ \A i \in 1..Len(flat) :
                     flat[i].cmd = KCP_CMD_PUSH => flat[i].sn \notin used.acked
               /\ c >= 0 /\ c <= Len(k.snd_queue)
               /\ k2.snd_nxt = k.snd_nxt + c
               /\ k2.snd_queue = SubSeq(k.snd_queue, c + 1, Len(k.snd_queue))
               /\ \A i \in 1..c :
                     LET seg == k2.snd_buf[Len(k.snd_buf) + i]
                     IN /\ seg.sn = k.snd_nxt + i - 1
                        /\ seg.data = k.snd_queue[i].data
                        /\ seg.frg = k.snd_queue[i].frg
               /\ \A i \in 1..Len(k.snd_buf) : k2.snd_buf[i].sn = k.snd_buf[i].sn ]_vars

\* C32 witness: after one segment was acknowledged out of order, update has
\* sent the segment before it again and a new one after it.
C32_SentAroundAcked ==
    /\ last.op = "update"
    /\ \E a \in used.acked :
          /\ \E i \in 1..Len(Flat(last.out)) :
                Flat(last.out)[i].cmd = KCP_CMD_PUSH /\ Flat(last.out)[i].sn < a
          /\ \E i \in 1..Len(Flat(last.out)) :
                Flat(last.out)[i].cmd = KCP_CMD_PUSH /\ Flat(last.out)[i].sn > a

\* C33: in every state snd_buf is strictly ascending in sn, and snd_una is
\* the sn of the first segment of snd_buf, or snd_nxt when snd_buf is empty.
C33_SndBufOrdered ==
    LET k == kcp["A"]
    IN /\ \A i \in 1..(Len(k.snd_buf) - 1) : timediff(k.snd_buf[i].sn, k.snd_buf[i + 1].sn) < 0
       /\ k.snd_una = IF k.snd_buf # <<>> THEN k.snd_buf[1].sn ELSE k.snd_nxt

\* C33 witness: input has removed the first segment and one that was not the
\* next: snd_buf has a gap and snd_una is the sn of its first segment.
C33_GapInFlight ==
    /\ last.op = "input"
    /\ Len(kcp["A"].snd_buf) >= 2
    /\ kcp["A"].snd_una > 0
    /\ kcp["A"].snd_buf[2].sn > kcp["A"].snd_buf[1].sn + 1

\* C34: a send call that returns UserBufTooBig leaves snd_queue exactly as it
\* was before the call.
C34_RejectedSendIsAtomic ==
    [][ (used'.send # used.send /\ last'.err = "UserBufTooBig") =>
          kcp'["A"].snd_queue = kcp["A"].snd_queue ]_vars

\* C35: a successful flush that starts with snd_queue non-empty, snd_buf
\* empty, snd_wnd > 0 and rmt_wnd > 0 moves at least the first segment of
\* snd_queue to snd_buf and writes it to the sink as a PUSH, the first flush
\* of a new control block included.
C35_FlushPromotes ==
    [][ (last'.op = "update" /\ last'.err = "Ok" /\ used' = used /\ now' = now
           /\ UpdateClock(kcp["A"], now).flush) =>
          LET k == kcp["A"]
              k2 == kcp'["A"]
          IN (k.snd_queue # <<>> /\ k.snd_buf = <<>> /\ k.snd_wnd > 0 /\ k.rmt_wnd > 0) =>
                /\ k2.snd_buf # <<>>
                /\ k2.snd_buf[1].data = k.snd_queue[1].data
                /\ Written(last'.out, k.snd_nxt) ]_vars
====
